---- MODULE Spec2Model ----
(***************************************************************************)
(* Model of the delivery config processor of md-lib-go                     *)
(* (src/deliveryconfig.go): the typed model and the raw document tree of   *)
(* a delivery config, Load, Save, UpsertResource, InsertArtifact,          *)
(* AllEnvironments, UpdateArtifactReference, the key-priority serializer   *)
(* configKeySort, the api calls Publish, Diff and Validate with the diff   *)
(* command, and the parallel fetches of FindApplicationResources.          *)
(*                                                                         *)
(* Strings that the code takes apart are kept in parts:                    *)
(*   - a resource kind "ec2/cluster@v1" is <<"ec2", "cluster", "v1">>;      *)
(*   - a reference name is the sequence of its "-"-separated pieces, so     *)
(*     "x" is <<"x">>, "" is <<>> and Sprintf("%s-%d", "x", 7) is           *)
(*     <<"x", 7>>;                                                          *)
(*   - a mapping key is compared through its character codes.              *)
(* Go indexes from 0 and reports "not found" as -1; the model indexes      *)
(* from 1 and reports "not found" as 0.                                    *)
(***************************************************************************)
EXTENDS Integers, Sequences, FiniteSets, TLC

VARIABLES
    loaded,        \* Load has run: rawDeliveryConfig is a document node
    providers,     \* the four providers set at construction
    envs,          \* p.deliveryConfig.Environments (typed model)
    rawEnvs,       \* the "environments" value of p.rawDeliveryConfig
    artifacts,     \* p.deliveryConfig.Artifacts (typed model)
    rawArtifacts,  \* the "artifacts" value of p.rawDeliveryConfig
    now,           \* the latest value read from time.Now().UnixNano()
    last,          \* the latest UpsertResource / InsertArtifact call:
                   \* arguments, results, state before
    prev,          \* the InsertArtifact call before the latest one
    calls,         \* UpsertResource / InsertArtifact calls since Load
    appName,       \* p.appName ("" unless WithAppName was given)
    rawKeys,       \* the top-level keys of p.rawDeliveryConfig, in order
    rawName,       \* the "name" value of p.rawDeliveryConfig
    rawApplication,\* the "application" value of p.rawDeliveryConfig
    pContent,      \* p.content: the bytes last read by Load or written by Save
    written,       \* the delivery config file as Save last wrote it
    baseURL,       \* cli.spinnakerAPIBaseURL
    api,           \* the latest Publish / Diff / Validate call
    exported,      \* the content bytes Export holds for a resource
    find,          \* the latest FindApplicationResources call
    node,          \* a yaml.Node tree given to configKeySort
    sortedNode,    \* what configKeySort made of node (NoNode before it ran)
    firstNode,     \* the tree the first configKeySort run was given
    firstSorted    \* what the first configKeySort run made of it

fileVars == <<appName, rawName, rawApplication, pContent, written>>
apiVars == <<baseURL, api>>
procVars == <<loaded, providers, envs, rawEnvs, artifacts, rawArtifacts, now, last, prev, calls,
              rawKeys, fileVars, apiVars, exported, find>>
sortVars == <<node, sortedNode, firstNode, firstSorted>>
vars == <<procVars, sortVars>>

\* Calls made on one loaded document.
MaxCalls == 2
\* Largest clock value read.
MaxClock == 2

\* The value of a key in a raw mapping: Absent when the mapping does not hold
\* the key (walky.HasKey is false, walky.GetKey returns nil), else Some(v).
Absent == [present |-> FALSE, value |-> <<>>]
Some(v) == [present |-> TRUE, value |-> v]
\* A value found in the file for constraints / notifications / verifyWith / postDeploy.
UserValue == Some(<<"user">>)
NoCall == [op |-> "none"]
\* A value of a resource document that is not there, one that is a scalar,
\* and a mapping with the given reference ("" when it has no reference key).
NoValue == [type |-> "absent", reference |-> ""]
ScalarValue == [type |-> "scalar", reference |-> ""]
MapValue(ref) == [type |-> "map", reference |-> ref]
\* No content bytes.
NoContent ==
    [parses |-> FALSE, marshalled |-> FALSE, kindType |-> "absent", kind |-> "",
     spec |-> [type |-> "absent", container |-> NoValue, imageProvider |-> NoValue,
               artifactReference |-> ""]]
\* No yaml.Node (a nil pointer).
NoNode == [kind |-> "none", value |-> "", content |-> <<>>]

EnvNames == {"testing", "staging"}

----------------------------------------------------------------------------
(* Resources *)

EmptyLocations == [account |-> "", regions |-> 0]
TestLocations == [account |-> "test", regions |-> 1]

\* The resource documents (the content argument of UpsertResource), as parsed.
\* payload stands for the rest of the spec (capacity, dependencies, ...).
Contents ==
    { [kind |-> <<"ec2", "cluster", "v1">>, locations |-> TestLocations, name |-> "app", payload |-> 1],
      [kind |-> <<"ec2", "cluster", "v1">>, locations |-> TestLocations, name |-> "app", payload |-> 2],
      [kind |-> <<"ec2", "cluster", "v1">>, locations |-> EmptyLocations, name |-> "app", payload |-> 1],
      [kind |-> <<"titus", "cluster", "v1">>, locations |-> TestLocations, name |-> "web", payload |-> 1] }

\* The resource identities searched for.
Identities ==
    { [ResourceType |-> "cluster", CloudProvider |-> "aws", Account |-> "test", Name |-> "app"],
      [ResourceType |-> "cluster", CloudProvider |-> "titus", Account |-> "test", Name |-> "web"] }

\* yaml.Unmarshal(content, &deliveryResource): the typed view keeps kind, moniker, locations.
ToDeliveryResource(content) ==
    [kind |-> content.kind, locations |-> content.locations, name |-> content.name]

Empty(l) == l.account = "" /\ l.regions = 0

CloudProvider(r) == IF r.kind[1] = "ec2" THEN "aws" ELSE r.kind[1]

HasKind(e, kind) ==
    LET kindProvider == IF e.CloudProvider = "aws" THEN "ec2" ELSE e.CloudProvider
    IN  kind[1] = kindProvider /\ kind[2] = e.ResourceType

Match(r, e) ==
    /\ HasKind(e, r.kind)
    /\ CloudProvider(r) = e.CloudProvider
    /\ r.locations.account = e.Account
    /\ r.name = e.Name

\* A resource compared with the locations it has itself.
NoInherit(r, envLocations) == r

\* The resource as findResourceIndex compares it: empty locations inherit the environment's.
Inherit(r, envLocations) ==
    IF Empty(r.locations) THEN [r EXCEPT !.locations = envLocations] ELSE r

\* No environment found, whatever the name.
findNoEnv(es, envName) == 0

findEnvIndex(es, envName) ==
    IF \E i \in 1..Len(es) : es[i].name = envName
    THEN CHOOSE i \in 1..Len(es) : es[i].name = envName /\ \A j \in 1..(i - 1) : es[j].name # envName
    ELSE 0

\* The index findResourceIndex returns for environment env.
findResourceIndex(env, search) ==
    LET hit(i) == Match(Inherit(env.resources[i], env.locations), search)
    IN  IF \E i \in 1..Len(env.resources) : hit(i)
        THEN CHOOSE i \in 1..Len(env.resources) : hit(i) /\ \A j \in 1..(i - 1) : ~hit(j)
        ELSE 0

\* The environment as findResourceIndex leaves it: every resource it looked at
\* (up to the match) has inherited the environment's locations.
afterFind(env, search) ==
    LET ix == findResourceIndex(env, search)
        seen == IF ix = 0 THEN Len(env.resources) ELSE ix
    IN  [env EXCEPT !.resources =
            [i \in 1..Len(env.resources) |->
                IF i <= seen THEN Inherit(env.resources[i], env.locations) ELSE env.resources[i]]]

\* The value ResourceExists returns.
ResourceExists(es, search) ==
    \E eix \in 1..Len(es) : findResourceIndex(es[eix], search) > 0

----------------------------------------------------------------------------
(* Providers *)

DefaultProviders == "default"
CustomProviders == "custom"
\* Custom providers of which one returns a value that walky.ToNode cannot
\* convert (a Go value yaml cannot marshal).
UnconvertibleNotifications == "unconvertible notifications"
UnconvertibleVerifyWith == "unconvertible verifyWith"
Unconvertible == <<"chan">>

\* walky.ToNode(v) returns an error.
ToNodeFails(v) == v = Unconvertible

constraintsProvider(envName) ==
    IF providers = DefaultProviders THEN <<"manual-judgement">> ELSE <<"constraint", envName>>
notificationsProvider(envName) ==
    IF providers = DefaultProviders THEN <<>>
    ELSE IF providers = UnconvertibleNotifications THEN Unconvertible
    ELSE <<"notification", envName>>
verifyWithProvider(envName) ==
    IF providers = DefaultProviders THEN <<>>
    ELSE IF providers = UnconvertibleVerifyWith THEN Unconvertible
    ELSE <<"verify", envName>>
postDeployProvider(envName) ==
    IF providers = DefaultProviders THEN <<>> ELSE <<"postDeploy", envName>>

----------------------------------------------------------------------------
(* The delivery config file, as far as environments go *)

\* The four environment lists as found in a file: each key present or not.
FileLists ==
    { [constraints |-> c, notifications |-> n, verifyWith |-> n, postDeploy |-> c] :
        c \in {Absent, UserValue}, n \in {Absent, UserValue} }

\* One environment of a file: name, default locations, the resources key
\* (absent, empty, or one resource) and the four lists.
FileEnvs ==
    { [name |-> nm, locations |-> loc, resources |-> rs,
       constraints |-> ls.constraints, notifications |-> ls.notifications,
       verifyWith |-> ls.verifyWith, postDeploy |-> ls.postDeploy] :
        nm \in EnvNames, loc \in {EmptyLocations, TestLocations},
        rs \in {Absent, Some(<<>>)} \cup { Some(<<c>>) : c \in Contents },
        ls \in FileLists }

\* The "environments" value of the files Load reads: no such key (also a
\* missing file), an empty list, or one environment.
Files == {Absent, Some(<<>>)} \cup { Some(<<e>>) : e \in FileEnvs }

\* yaml.Unmarshal(p.content, &p.deliveryConfig), environments part.
ToDeliveryEnvironment(e) ==
    [name |-> e.name, locations |-> e.locations,
     resources |-> [i \in 1..Len(e.resources.value) |-> ToDeliveryResource(e.resources.value[i])]]

ToDeliveryEnvironments(file) ==
    [i \in 1..Len(file.value) |-> ToDeliveryEnvironment(file.value[i])]

----------------------------------------------------------------------------
(* The delivery config file as bytes *)

\* The bytes of a delivery config: the indentation, the top-level keys in
\* their order, the values of name, application, artifacts and environments,
\* and the line comment of the kind of every resource of every environment.
\* The order of the keys below the top level is the subject of SpecSort.
NoBytes ==
    [indent |-> 0, keys |-> <<>>, name |-> Absent, application |-> Absent,
     artifacts |-> Absent, environments |-> Absent, comments |-> <<>>]

\* A resource whose kind carries no line comment.
NoComment == [moniker |-> "", account |-> ""]

\* The comments of a document none of whose kinds has one.
NoComments(es) ==
    IF es.present
    THEN [i \in 1..Len(es.value) |->
            IF es.value[i].resources.present
            THEN [j \in 1..Len(es.value[i].resources.value) |-> NoComment]
            ELSE <<>>]
    ELSE <<>>

\* walky.AssignMapNode on the top-level mapping: a new key goes to the end,
\* a key that is there keeps its place.
AssignKey(keys, key) ==
    IF \E i \in 1..Len(keys) : keys[i] = key THEN keys ELSE Append(keys, key)

\* A file with the given environments and artifacts values and nothing else.
FileWith(es, as) ==
    [state |-> "file",
     doc |-> [indent |-> 2,
              keys |-> (IF es.present THEN <<"environments">> ELSE <<>>)
                         \o (IF as.present THEN <<"artifacts">> ELSE <<>>),
              name |-> Absent, application |-> Absent,
              artifacts |-> as, environments |-> es, comments |-> NoComments(es)]]

----------------------------------------------------------------------------
(* UpsertResource *)

\* NewEnvNode with postDeploy taken from the verifyWith provider.
NewEnvNodeWrongProvider(envName, data) ==
    [name |-> envName, locations |-> EmptyLocations, resources |-> Some(<<data>>),
     constraints |-> Some(constraintsProvider(envName)),
     notifications |-> Some(notificationsProvider(envName)),
     verifyWith |-> Some(verifyWithProvider(envName)),
     postDeploy |-> Some(verifyWithProvider(envName))]

\* walky.ToNode of the new environment's map.
NewEnvNode(envName, data) ==
    [name |-> envName, locations |-> EmptyLocations, resources |-> Some(<<data>>),
     constraints |-> Some(constraintsProvider(envName)),
     notifications |-> Some(notificationsProvider(envName)),
     verifyWith |-> Some(verifyWithProvider(envName)),
     postDeploy |-> Some(postDeployProvider(envName))]

\* The typed environment appended with it.
NewDeliveryEnvironment(envName, deliveryResource) ==
    [name |-> envName, locations |-> EmptyLocations, resources |-> <<deliveryResource>>]

\* s[ix] = x, as in Resources[resourceIx] = deliveryResource.
AssignIndex(s, ix, x) == [s EXCEPT ![ix] = x]

\* All four keys set only when missing.
BackfillLists(envNode, envName) ==
    [envNode EXCEPT
        !.constraints = IF ~@.present THEN Some(constraintsProvider(envName)) ELSE @,
        !.notifications = IF ~@.present THEN Some(notificationsProvider(envName)) ELSE @,
        !.verifyWith = IF ~@.present THEN Some(verifyWithProvider(envName)) ELSE @,
        !.postDeploy = IF ~@.present THEN Some(postDeployProvider(envName)) ELSE @]

\* The keys UpsertResource sets on an existing environment node whatever
\* becomes of the resource: constraints and notifications when the key is
\* missing, verifyWith and postDeploy always.
RefreshLists(envNode, envName) ==
    [envNode EXCEPT
        !.constraints = IF ~@.present THEN Some(constraintsProvider(envName)) ELSE @,
        !.notifications = IF ~@.present THEN Some(notificationsProvider(envName)) ELSE @,
        !.verifyWith = Some(verifyWithProvider(envName)),
        !.postDeploy = Some(postDeployProvider(envName))]

\* The branch for an environment that is not there yet: [envs, rawEnvs, added].
UpsertNewEnvironment(envName, data, deliveryResource) ==
    [envs |-> Append(envs, NewDeliveryEnvironment(envName, deliveryResource)),
     rawEnvs |-> Some(Append(rawEnvs.value, NewEnvNode(envName, data))),
     added |-> TRUE]

\* The branch for the environment at envIx: [envs, rawEnvs, added].
UpsertExistingEnvironment(resource, envName, envIx, data, deliveryResource) ==
    LET envNode == RefreshLists(rawEnvs.value[envIx], envName)
        env == afterFind(envs[envIx], resource)
        resourceIx == findResourceIndex(envs[envIx], resource)
        setNode(n) == Some([rawEnvs.value EXCEPT ![envIx] = n])
    IN  IF ~envNode.resources.present
        THEN [envs |-> envs, rawEnvs |-> setNode(envNode), added |-> FALSE]
        ELSE IF resourceIx = 0
        THEN [envs |-> [envs EXCEPT ![envIx] =
                            [env EXCEPT !.resources = Append(@, deliveryResource)]],
              rawEnvs |-> setNode([envNode EXCEPT
                            !.resources = Some(Append(@.value, data))]),
              added |-> TRUE]
        ELSE [envs |-> [envs EXCEPT ![envIx] =
                            [env EXCEPT !.resources = AssignIndex(@, resourceIx, deliveryResource)]],
              rawEnvs |-> setNode([envNode EXCEPT
                            !.resources = Some(AssignIndex(@.value, resourceIx, data))]),
              added |-> FALSE]

\* The outcome of UpsertResource(resource, envName, content): [envs, rawEnvs, added].
UpsertOutcome(resource, envName, content) ==
    LET data == content
        deliveryResource == ToDeliveryResource(content)
        envIx == findEnvIndex(envs, envName)
    IN  IF ~rawEnvs.present \/ envIx = 0
        THEN UpsertNewEnvironment(envName, data, deliveryResource)
        ELSE IF Len(rawEnvs.value) >= envIx
        THEN UpsertExistingEnvironment(resource, envName, envIx, data, deliveryResource)
        ELSE [envs |-> envs, rawEnvs |-> rawEnvs, added |-> FALSE]

\* bytesToData(content) and yaml.Unmarshal(content, &deliveryResource) return
\* no error (payload 0 stands for bytes that are not YAML).
Parses(content) == content.payload # 0

\* An error returned by UpsertResource after the changes done were made:
\* added is false whatever was done.
Failed(done, e) == [envs |-> done.envs, rawEnvs |-> done.rawEnvs, added |-> FALSE, err |-> e]

\* UpsertResource with its error returns: [envs, rawEnvs, added, err], err
\* "" for nil.  An error of walky.ToNode ends the call where it happens,
\* with the keys assigned before it left as they are.
UpsertResult(resource, envName, content) ==
    LET envIx == findEnvIndex(envs, envName)
        unchanged == [envs |-> envs, rawEnvs |-> rawEnvs]
        full == UpsertOutcome(resource, envName, content)
        ok(done) == [envs |-> done.envs, rawEnvs |-> done.rawEnvs, added |-> done.added,
                     err |-> ""]
    IN  IF ~Parses(content) THEN Failed(unchanged, "failed to parse content")
        ELSE IF ~rawEnvs.present \/ envIx = 0
        THEN IF \/ ToNodeFails(constraintsProvider(envName))
                \/ ToNodeFails(notificationsProvider(envName))
                \/ ToNodeFails(verifyWithProvider(envName))
                \/ ToNodeFails(postDeployProvider(envName))
             THEN Failed(unchanged, "convert to node")
             ELSE ok(full)
        ELSE IF Len(rawEnvs.value) >= envIx
        THEN LET before == rawEnvs.value[envIx]
                 keep(done, key) ==
                     [done EXCEPT !.rawEnvs.value[envIx][key] = before[key]]
                 onlyConstraints ==
                     [unchanged EXCEPT !.rawEnvs.value[envIx].constraints =
                                          Some(constraintsProvider(envName))]
             IN  IF ~before.constraints.present /\ ToNodeFails(constraintsProvider(envName))
                 THEN Failed(unchanged, "convert to node")
                 ELSE IF ~before.notifications.present
                         /\ ToNodeFails(notificationsProvider(envName))
                 THEN Failed(IF before.constraints.present THEN unchanged ELSE onlyConstraints,
                             "convert to node")
                 ELSE IF ToNodeFails(verifyWithProvider(envName))
                 THEN Failed(keep(keep(full, "verifyWith"), "postDeploy"), "convert to node")
                 ELSE IF ToNodeFails(postDeployProvider(envName))
                 THEN Failed(keep(full, "postDeploy"), "convert to node")
                 ELSE ok(full)
        ELSE ok(full)

UpsertResource(resource, envName, content) ==
    /\ loaded
    /\ calls < MaxCalls
    /\ LET out == UpsertResult(resource, envName, content)
       IN  /\ envs' = out.envs
           /\ rawEnvs' = out.rawEnvs
           /\ last' = [op |-> "upsert", resource |-> resource, envName |-> envName,
                       content |-> content, added |-> out.added, err |-> out.err,
                       envsBefore |-> envs, rawBefore |-> rawEnvs]
    /\ calls' = calls + 1
    /\ rawKeys' = AssignKey(rawKeys, "environments")
    /\ UNCHANGED <<loaded, providers, artifacts, rawArtifacts, now, prev, sortVars,
                   fileVars, apiVars, exported, find>>

\* Load of the file found on disk.  A missing file gives an empty document
\* and leaves p.content as it was; a file that cannot be read stops Load
\* after the typed model was cleared; otherwise both views are parsed from
\* the bytes read.  (The kind comments of the file are kept in the bytes
\* only: Save sets every one of them anew.)
LoadFile(file) ==
    /\ IF file.state = "missing"
       THEN /\ loaded' = TRUE
            /\ envs' = <<>>
            /\ artifacts' = <<>>
            /\ rawEnvs' = Absent
            /\ rawArtifacts' = Absent
            /\ rawKeys' = <<>>
            /\ rawName' = Absent
            /\ rawApplication' = Absent
            /\ UNCHANGED pContent
       ELSE IF file.state = "unreadable"
       THEN /\ envs' = <<>>
            /\ artifacts' = <<>>
            /\ UNCHANGED <<loaded, rawEnvs, rawArtifacts, rawKeys, rawName, rawApplication, pContent>>
       ELSE /\ loaded' = TRUE
            /\ envs' = ToDeliveryEnvironments(file.doc.environments)
            /\ artifacts' = file.doc.artifacts.value
            /\ rawEnvs' = file.doc.environments
            /\ rawArtifacts' = file.doc.artifacts
            /\ rawKeys' = file.doc.keys
            /\ rawName' = file.doc.name
            /\ rawApplication' = file.doc.application
            /\ pContent' = file.doc
    /\ last' = [op |-> "load", file |-> file, err |-> file.state = "unreadable"]
    /\ prev' = NoCall
    /\ calls' = 0
    /\ UNCHANGED <<providers, now, sortVars, appName, written, exported, find>>

Load(file) == LoadFile(file) /\ UNCHANGED apiVars

InitProcessor ==
    /\ loaded = FALSE
    /\ providers \in {DefaultProviders, CustomProviders}
    /\ envs = <<>>
    /\ rawEnvs = Absent
    /\ artifacts = <<>>
    /\ rawArtifacts = Absent
    /\ now = 1
    /\ last = NoCall
    /\ prev = NoCall
    /\ calls = 0
    /\ appName = ""
    /\ rawKeys = <<>>
    /\ rawName = Absent
    /\ rawApplication = Absent
    /\ pContent = NoBytes
    /\ written = NoBytes
    /\ baseURL = ""
    /\ api = NoCall
    /\ exported = NoContent
    /\ find = NoCall
    /\ node = NoNode
    /\ sortedNode = NoNode
    /\ firstNode = NoNode
    /\ firstSorted = NoNode

NextUpsert ==
    \/ \E es \in Files : ~loaded /\ Load(FileWith(es, Absent))
    \/ \E resource \in Identities, envName \in EnvNames, content \in Contents :
            UpsertResource(resource, envName, content)

SpecUpsert == InitProcessor /\ [][NextUpsert]_vars

----------------------------------------------------------------------------
(* Claims about UpsertResource *)

\* Number of resources of the environment named envName (0 when there is none).
ResourceCount(es, envName) ==
    IF findEnvIndex(es, envName) = 0 THEN 0 ELSE Len(es[findEnvIndex(es, envName)].resources)

RECURSIVE TotalResources(_)
TotalResources(es) ==
    IF es = <<>> THEN 0 ELSE Len(Head(es).resources) + TotalResources(Tail(es))

RECURSIVE TotalRawResources(_)
TotalRawResources(nodes) ==
    IF nodes = <<>> THEN 0
    ELSE Len(Head(nodes).resources.value) + TotalRawResources(Tail(nodes))

\* C1: after UpsertResource(r, env, content) has returned without error,
\* ResourceExists(r) is true, and a following UpsertResource(r, env, content2)
\* (a call that finds r in env) leaves the number of resources of env as it
\* was.  Stated for the content that describes r itself (its kind, account
\* and name match r).
C1_UpsertThenExists ==
    (last.op = "upsert" /\ Match(ToDeliveryResource(last.content), last.resource)) =>
        /\ ResourceExists(envs, last.resource)
        /\ ResourceCount(envs, last.envName) > 0
        /\ (findEnvIndex(last.envsBefore, last.envName) > 0
            /\ findResourceIndex(last.envsBefore[findEnvIndex(last.envsBefore, last.envName)],
                                 last.resource) > 0) =>
                ResourceCount(envs, last.envName) = ResourceCount(last.envsBefore, last.envName)

\* C2: when ResourceExists(r) holds before UpsertResource(r, envName, content),
\* in whatever environment, the call adds no resource entry to the document.
C2_NoInsertWhenExists ==
    (last.op = "upsert" /\ ResourceExists(last.envsBefore, last.resource)) =>
        /\ TotalResources(envs) = TotalResources(last.envsBefore)
        /\ TotalRawResources(rawEnvs.value) = TotalRawResources(last.rawBefore.value)

\* C3: when the environment envName exists and none of its resources matches,
\* the new resource is appended at the end and added is true; when the resource
\* at index i matches, entry i is replaced, added is false, and every other
\* resource keeps its index and content in the typed model and in the raw
\* tree (a typed resource that findResourceIndex looked at may have taken
\* the environment's default locations).
C3_AppendOrReplaceInPlace ==
    (last.op = "upsert" /\ findEnvIndex(last.envsBefore, last.envName) > 0) =>
        LET envIx == findEnvIndex(last.envsBefore, last.envName)
            before == last.envsBefore[envIx].resources
            rawBefore == last.rawBefore.value[envIx].resources.value
            after == envs[envIx].resources
            rawAfter == rawEnvs.value[envIx].resources.value
            ix == findResourceIndex(last.envsBefore[envIx], last.resource)
            new == ToDeliveryResource(last.content)
            loc == last.envsBefore[envIx].locations
        IN  IF ix = 0
            THEN /\ last.added
                 /\ Len(after) = Len(before) + 1 /\ after[Len(after)] = new
                 /\ Len(rawAfter) = Len(rawBefore) + 1 /\ rawAfter[Len(rawAfter)] = last.content
                 /\ \A i \in 1..Len(before) : after[i] \in {before[i], Inherit(before[i], loc)}
                 /\ \A i \in 1..Len(rawBefore) : rawAfter[i] = rawBefore[i]
            ELSE /\ ~last.added
                 /\ Len(after) = Len(before) /\ after[ix] = new
                 /\ Len(rawAfter) = Len(rawBefore) /\ rawAfter[ix] = last.content
                 /\ \A i \in 1..Len(before) :
                        i # ix => after[i] \in {before[i], Inherit(before[i], loc)}
                 /\ \A i \in 1..Len(rawBefore) : i # ix => rawAfter[i] = rawBefore[i]

\* C4: when no environment is named envName, UpsertResource appends one
\* environment of that name after the existing ones, holding the given
\* resource alone and the four lists as the providers return them, returns
\* added = true and leaves the environments that were there as they were.
C4_NewEnvironmentAppended ==
    (last.op = "upsert" /\ findEnvIndex(last.envsBefore, last.envName) = 0) =>
        LET n == Len(last.envsBefore)
            envNode == rawEnvs.value[n + 1]
        IN  /\ last.added
            /\ Len(envs) = n + 1
            /\ \A i \in 1..n : envs[i] = last.envsBefore[i]
            /\ envs[n + 1].name = last.envName
            /\ envs[n + 1].resources = <<ToDeliveryResource(last.content)>>
            /\ rawEnvs.present
            /\ Len(rawEnvs.value) = Len(last.rawBefore.value) + 1
            /\ \A i \in 1..Len(last.rawBefore.value) : rawEnvs.value[i] = last.rawBefore.value[i]
            /\ envNode.name = last.envName
            /\ envNode.resources = Some(<<last.content>>)
            /\ envNode.constraints = Some(constraintsProvider(last.envName))
            /\ envNode.notifications = Some(notificationsProvider(last.envName))
            /\ envNode.verifyWith = Some(verifyWithProvider(last.envName))
            /\ envNode.postDeploy = Some(postDeployProvider(last.envName))

\* C4 witness: an environment was created in a document that already had one.
C4_Witness ==
    /\ last.op = "upsert"
    /\ findEnvIndex(last.envsBefore, last.envName) = 0
    /\ Len(last.envsBefore) >= 1
    /\ Len(envs) = Len(last.envsBefore) + 1

----------------------------------------------------------------------------
(* Artifacts *)

\* The build metadata Equal compares: TagVersionStrategy and VMOptions.
Metas ==
    { [tagVersionStrategy |-> t, vmOptions |-> [baseOs |-> o]] :
        t \in {"", "semver-tag"}, o \in {"", "bionic"} }

\* The artifacts handed to InsertArtifact or found in a file.  A name is the
\* sequence of its pieces; reference <<>> is the empty string.
Artifacts ==
    { [name |-> n, reference |-> r,
       tagVersionStrategy |-> m.tagVersionStrategy, vmOptions |-> m.vmOptions] :
        n \in {<<"x">>, <<"y">>}, r \in {<<>>, <<"y">>}, m \in Metas }

\* The "artifacts" value of the files Load reads: no such key, an empty
\* list, or one artifact.
ArtifactFiles == {Absent, Some(<<>>)} \cup { Some(<<a>>) : a \in Artifacts }

RefName(a) == IF a.reference # <<>> THEN a.reference ELSE a.name

Equal(a, b) ==
    /\ a.tagVersionStrategy = b.tagVersionStrategy
    /\ a.vmOptions = b.vmOptions

\* fmt.Sprintf("%s-%d", ref, t)
UniqueRef(ref, t) == Append(ref, t)

\* Index of the first artifact of the list Equal to artifact, 0 when none:
\* the element at which InsertArtifact's loop returns.
FirstEqual(list, artifact) ==
    IF \E i \in 1..Len(list) : Equal(list[i], artifact)
    THEN CHOOSE i \in 1..Len(list) :
            Equal(list[i], artifact) /\ \A j \in 1..(i - 1) : ~Equal(list[j], artifact)
    ELSE 0

\* collision whenever the list holds anything.
CollisionAlways(list, artifact) == list # <<>>

\* The collision flag once the loop has run through the list.
Collision(list, artifact) ==
    \E i \in 1..Len(list) : RefName(list[i]) = RefName(artifact)

\* The alias branch returning the new artifact's own reference name.
AliasOwnRef(current, artifact) ==
    [artifacts |-> artifacts, rawArtifacts |-> rawArtifacts, added |-> FALSE,
     updatedRef |-> IF RefName(current) = RefName(artifact) THEN <<>> ELSE RefName(artifact),
     artifact |-> artifact]

\* The branch taken at the first Equal artifact, current.
AliasOutcome(current, artifact) ==
    IF RefName(current) = RefName(artifact)
    THEN [artifacts |-> artifacts, rawArtifacts |-> rawArtifacts, added |-> FALSE,
          updatedRef |-> <<>>, artifact |-> artifact]
    ELSE [artifacts |-> artifacts, rawArtifacts |-> rawArtifacts, added |-> FALSE,
          updatedRef |-> RefName(current),
          artifact |-> [artifact EXCEPT !.reference = RefName(current)]]

\* The branch taken when no artifact of the list is Equal: append, under a
\* new reference made from the clock value t when the reference name is taken.
AppendOutcome(artifact, t) ==
    LET collision == Collision(artifacts, artifact)
        renamed == IF collision
                   THEN [artifact EXCEPT !.reference = UniqueRef(RefName(artifact), t)]
                   ELSE artifact
    IN  [artifacts |-> Append(artifacts, renamed),
         rawArtifacts |-> Some(Append(rawArtifacts.value, renamed)),
         added |-> TRUE,
         updatedRef |-> IF collision THEN renamed.reference ELSE <<>>,
         artifact |-> renamed]

\* InsertArtifact without the search for an Equal artifact.
InsertAlwaysAppends(artifact, t) == AppendOutcome(artifact, t)

\* The outcome of InsertArtifact(artifact) when the clock reads t:
\* [artifacts, rawArtifacts, added, updatedRef, artifact (as the call leaves it)].
InsertOutcome(artifact, t) ==
    LET ix == FirstEqual(artifacts, artifact)
    IN  IF ix > 0 THEN AliasOutcome(artifacts[ix], artifact) ELSE AppendOutcome(artifact, t)

\* time.Now() is read only for a new reference; the clock does not run
\* backwards but may read the same value twice.
InsertArtifact(artifact, t) ==
    /\ loaded
    /\ calls < MaxCalls
    /\ LET reads == FirstEqual(artifacts, artifact) = 0 /\ Collision(artifacts, artifact)
           out == InsertOutcome(artifact, t)
       IN  /\ t >= now /\ t <= MaxClock
           /\ ~reads => t = now
           /\ now' = t
           /\ artifacts' = out.artifacts
           /\ rawArtifacts' = out.rawArtifacts
           /\ last' = [op |-> "insert", artifact |-> artifact, after |-> out.artifact,
                       added |-> out.added, updatedRef |-> out.updatedRef,
                       artifactsBefore |-> artifacts, rawBefore |-> rawArtifacts]
    /\ prev' = IF last.op = "insert"
               THEN [op |-> "insert", artifact |-> last.artifact, after |-> last.after,
                     added |-> last.added, updatedRef |-> last.updatedRef]
               ELSE NoCall
    /\ calls' = calls + 1
    /\ rawKeys' = IF rawArtifacts'.present THEN AssignKey(rawKeys, "artifacts") ELSE rawKeys
    /\ UNCHANGED <<loaded, providers, envs, rawEnvs, sortVars, fileVars, apiVars, exported, find>>

NextArtifact ==
    \/ \E as \in ArtifactFiles : ~loaded /\ Load(FileWith(Absent, as))
    \/ \E artifact \in Artifacts, t \in 1..MaxClock : InsertArtifact(artifact, t)

SpecArtifact == InitProcessor /\ [][NextArtifact]_vars

----------------------------------------------------------------------------
(* Claims about InsertArtifact.  a is the artifact of the call before the   *)
(* latest (prev), b the artifact of the latest call (last); a and b are the *)
(* values handed to the calls, prev.after and last.after are what the calls *)
(* made of them.                                                            *)

InsertedInTurn == prev.op = "insert" /\ last.op = "insert"

ListUnchanged == artifacts = last.artifactsBefore /\ rawArtifacts = last.rawBefore

\* C5 as claimed: for a, b with a.Equal(b) and a.RefName() = b.RefName(),
\* InsertArtifact(b) after InsertArtifact(a) returns (false, "") and leaves
\* the artifact list unchanged.
C5_EqualSameRefNoOp ==
    (InsertedInTurn /\ Equal(prev.artifact, last.artifact)
        /\ RefName(prev.artifact) = RefName(last.artifact)) =>
        /\ ~last.added
        /\ last.updatedRef = <<>>
        /\ ListUnchanged

\* C5 as amended: for such a and b, InsertArtifact(b) returns added = false
\* and leaves the list unchanged; its updatedRef is the one InsertArtifact(a)
\* returned: "" when a kept the reference name it came with, else the
\* reference name a was given.
C5_EqualSameRefFollowsFirst ==
    (InsertedInTurn /\ Equal(prev.artifact, last.artifact)
        /\ RefName(prev.artifact) = RefName(last.artifact)) =>
        /\ ~last.added
        /\ ListUnchanged
        /\ last.updatedRef = prev.updatedRef
        /\ (RefName(prev.after) = RefName(prev.artifact)) = (last.updatedRef = <<>>)
        /\ last.updatedRef # <<>> => last.updatedRef = RefName(prev.after)

\* C5 witness: a was appended, b is Equal to it under the same reference name.
C5_Witness ==
    /\ InsertedInTurn
    /\ Equal(prev.artifact, last.artifact)
    /\ RefName(prev.artifact) = RefName(last.artifact)
    /\ prev.added
    /\ ~last.added

\* C6 as claimed: for a, b with a.Equal(b) and a.RefName() # b.RefName(),
\* InsertArtifact(b) after InsertArtifact(a) returns added = false and a's
\* RefName as updatedRef, sets b's reference to it and leaves the list length
\* unchanged.  a's RefName is read either way: as handed in or as left.
C6_EqualOtherRefAliased ==
    (InsertedInTurn /\ Equal(prev.artifact, last.artifact)
        /\ RefName(prev.artifact) # RefName(last.artifact)) =>
        /\ ~last.added
        /\ last.updatedRef \in {RefName(prev.artifact), RefName(prev.after)}
        /\ last.after.reference = last.updatedRef
        /\ Len(artifacts) = Len(last.artifactsBefore)

\* C6 as amended: for such a and b, InsertArtifact(b) returns added = false
\* and leaves the list unchanged; when b's RefName differs from the RefName a
\* has after its own insertion, updatedRef is that RefName and b's reference
\* is set to it; when b already has that RefName, updatedRef is "" and b is
\* left as it is.
C6_EqualOtherRefFollowsFirst ==
    (InsertedInTurn /\ Equal(prev.artifact, last.artifact)
        /\ RefName(prev.artifact) # RefName(last.artifact)) =>
        /\ ~last.added
        /\ ListUnchanged
        /\ IF RefName(last.artifact) # RefName(prev.after)
           THEN /\ last.updatedRef = RefName(prev.after)
                /\ last.after = [last.artifact EXCEPT !.reference = RefName(prev.after)]
           ELSE /\ last.updatedRef = <<>>
                /\ last.after = last.artifact

\* C6 witness: a was appended, b is Equal to it under another reference name
\* and was made an alias of a.
C6_Witness ==
    /\ InsertedInTurn
    /\ Equal(prev.artifact, last.artifact)
    /\ RefName(prev.artifact) # RefName(last.artifact)
    /\ prev.added
    /\ last.updatedRef = RefName(prev.after)
    /\ last.after.reference = RefName(prev.after)

\* C7: for a, b that are not Equal and have the same RefName, with that
\* reference name taken in the list and no artifact of the list Equal to b,
\* InsertArtifact(b) after InsertArtifact(a) appends b, returns added = true
\* and a new unique updatedRef: it differs from the names and reference names
\* of a and b and from the RefName of every artifact already in the list.
C7_CollisionMintsUniqueRef ==
    (InsertedInTurn /\ ~Equal(prev.artifact, last.artifact)
        /\ RefName(prev.artifact) = RefName(last.artifact)
        /\ FirstEqual(last.artifactsBefore, last.artifact) = 0
        /\ Collision(last.artifactsBefore, last.artifact)) =>
        /\ last.added
        /\ artifacts = Append(last.artifactsBefore, last.after)
        /\ last.updatedRef # <<>>
        /\ last.after.reference = last.updatedRef
        /\ last.updatedRef \notin {prev.artifact.name, last.artifact.name,
                                   RefName(prev.artifact), RefName(last.artifact)}
        /\ \A i \in 1..Len(last.artifactsBefore) :
                RefName(last.artifactsBefore[i]) # last.updatedRef

\* C8: when no artifact of the list is Equal to the inserted one and none has
\* its RefName, InsertArtifact appends the artifact as it is at the end of
\* the typed list and of the raw artifacts sequence and returns (true, "").
C8_NoCollisionAppends ==
    (last.op = "insert"
        /\ \A i \in 1..Len(last.artifactsBefore) :
                /\ ~Equal(last.artifactsBefore[i], last.artifact)
                /\ RefName(last.artifactsBefore[i]) # RefName(last.artifact)) =>
        /\ last.added
        /\ last.updatedRef = <<>>
        /\ last.after = last.artifact
        /\ artifacts = Append(last.artifactsBefore, last.artifact)
        /\ rawArtifacts = Some(Append(last.rawBefore.value, last.artifact))

\* C8 witness: such an artifact was appended to a list that held another.
C8_Witness ==
    /\ last.op = "insert"
    /\ \A i \in 1..Len(last.artifactsBefore) :
            /\ ~Equal(last.artifactsBefore[i], last.artifact)
            /\ RefName(last.artifactsBefore[i]) # RefName(last.artifact)
    /\ last.artifactsBefore # <<>>
    /\ Len(artifacts) = Len(last.artifactsBefore) + 1

\* ---------------------------------------------------------------------
\* configKeySort: the key order of every mapping of the yaml.Node tree
\* ---------------------------------------------------------------------

\* yaml.Node values: Kind, Value and Content.  A mapping node holds its keys
\* and values alternately in Content (key, value, key, value, ...).
ScalarNode(v) == [kind |-> "scalar", value |-> v, content |-> <<>>]
MappingNode(c) == [kind |-> "mapping", value |-> "", content |-> c]
SequenceNode(c) == [kind |-> "sequence", value |-> "", content |-> c]
DocumentNode(c) == [kind |-> "document", value |-> "", content |-> c]

\* The bytes of the mapping keys, resource ids and kinds used below: Go
\* compares strings byte by byte.
Bytes(s) ==
    IF s = "ec2:b" THEN <<101, 99, 50, 58, 98>> ELSE
    IF s = "ec2:a:z" THEN <<101, 99, 50, 58, 97, 58, 122>> ELSE
    IF s = "ec2:c:a" THEN <<101, 99, 50, 58, 99, 58, 97>> ELSE
    IF s = "titus/cluster@v1" THEN <<116, 105, 116, 117, 115, 47, 99, 108, 117, 115, 116, 101, 114, 64, 118, 49>> ELSE
    IF s = "titus/cluster@v1.1" THEN <<116, 105, 116, 117, 115, 47, 99, 108, 117, 115, 116, 101, 114, 64, 118, 49, 46, 49>> ELSE
    IF s = "ec2/cluster@v1" THEN <<101, 99, 50, 47, 99, 108, 117, 115, 116, 101, 114, 64, 118, 49>> ELSE
    IF s = "ec2/cluster@v1.1" THEN <<101, 99, 50, 47, 99, 108, 117, 115, 116, 101, 114, 64, 118, 49, 46, 49>> ELSE
    IF s = "ec2/security-group@v1" THEN <<101, 99, 50, 47, 115, 101, 99, 117, 114, 105, 116, 121, 45, 103, 114, 111, 117, 112, 64, 118, 49>> ELSE
    IF s = "ec2:cluster:test:app" THEN <<101, 99, 50, 58, 99, 108, 117, 115, 116, 101, 114, 58, 116, 101, 115, 116, 58, 97, 112, 112>> ELSE
    IF s = "ec2:cluster:prod:app" THEN <<101, 99, 50, 58, 99, 108, 117, 115, 116, 101, 114, 58, 112, 114, 111, 100, 58, 97, 112, 112>> ELSE
    IF s = "ec2:security-group:prod:app" THEN <<101, 99, 50, 58, 115, 101, 99, 117, 114, 105, 116, 121, 45, 103, 114, 111, 117, 112, 58, 112, 114, 111, 100, 58, 97, 112, 112>> ELSE
    IF s = "titus:cluster:test:app" THEN <<116, 105, 116, 117, 115, 58, 99, 108, 117, 115, 116, 101, 114, 58, 116, 101, 115, 116, 58, 97, 112, 112>> ELSE
    IF s = "cluster:test:dev" THEN <<99, 108, 117, 115, 116, 101, 114, 58, 116, 101, 115, 116, 58, 100, 101, 118>> ELSE
    IF s = "cluster:test:prod" THEN <<99, 108, 117, 115, 116, 101, 114, 58, 116, 101, 115, 116, 58, 112, 114, 111, 100>> ELSE
    IF s = "ec2" THEN <<101, 99, 50>> ELSE
    IF s = "kind" THEN <<107, 105, 110, 100>> ELSE
    IF s = "name" THEN <<110, 97, 109, 101>> ELSE
    IF s = "type" THEN <<116, 121, 112, 101>> ELSE
    IF s = "moniker" THEN <<109, 111, 110, 105, 107, 101, 114>> ELSE
    IF s = "locations" THEN <<108, 111, 99, 97, 116, 105, 111, 110, 115>> ELSE
    IF s = "application" THEN <<97, 112, 112, 108, 105, 99, 97, 116, 105, 111, 110>> ELSE
    IF s = "artifacts" THEN <<97, 114, 116, 105, 102, 97, 99, 116, 115>> ELSE
    IF s = "environments" THEN <<101, 110, 118, 105, 114, 111, 110, 109, 101, 110, 116, 115>> ELSE
    IF s = "apiVersion" THEN <<97, 112, 105, 86, 101, 114, 115, 105, 111, 110>> ELSE
    IF s = "capacity" THEN <<99, 97, 112, 97, 99, 105, 116, 121>> ELSE
    IF s = "metadata" THEN <<109, 101, 116, 97, 100, 97, 116, 97>> ELSE
    IF s = "meta" THEN <<109, 101, 116, 97>> ELSE
    IF s = "spec" THEN <<115, 112, 101, 99>> ELSE
    IF s = "resources" THEN <<114, 101, 115, 111, 117, 114, 99, 101, 115>> ELSE
    IF s = "Zone" THEN <<90, 111, 110, 101>> ELSE
    <<>>

\* Go's a > b on strings: the first differing byte decides, a proper prefix
\* is the smaller string.
RECURSIVE BytesGreater(_, _)
BytesGreater(a, b) ==
    IF a = <<>> THEN FALSE
    ELSE IF b = <<>> THEN TRUE
    ELSE IF Head(a) # Head(b) THEN Head(a) > Head(b)
    ELSE BytesGreater(Tail(a), Tail(b))

StringGreater(a, b) == BytesGreater(Bytes(a), Bytes(b))

ConfigKeySortPriority ==
    << "kind", "name", "type", "moniker", "artifactReference", "container",
       "locations", "application", "artifacts", "environments" >>

\* Content with the key/value pair at i and the pair at j exchanged.
SwapPairs(c, i, j) ==
    [c EXCEPT ![i] = c[j], ![i + 1] = c[j + 1], ![j] = c[i], ![j + 1] = c[i + 1]]

\* The inner loop of the priority pass: the first key position at or after
\* start that holds key, 0 when there is none.
FindKey(c, start, key) ==
    LET found == {i \in start..Len(c) : (i - start) % 2 = 0 /\ c[i].value = key}
    IN  IF found = {} THEN 0
        ELSE CHOOSE i \in found : \A j \in found : i <= j

\* The loop over ConfigKeySortPriority: each key that is present is swapped
\* to start, and start moves past it.
RECURSIVE PriorityPass(_, _, _)
PriorityPass(c, start, keys) ==
    IF keys = <<>> THEN [content |-> c, start |-> start]
    ELSE LET i == FindKey(c, start, Head(keys))
         IN  IF i = 0 THEN PriorityPass(c, start, Tail(keys))
             ELSE IF i = start THEN PriorityPass(c, start + 2, Tail(keys))
             ELSE PriorityPass(SwapPairs(c, start, i), start + 2, Tail(keys))

\* One pass of the bubble sort, from key position i on.
RECURSIVE BubblePass(_, _)
BubblePass(c, i) ==
    IF i > Len(c) THEN c
    ELSE IF StringGreater(c[i - 2].value, c[i].value)
         THEN BubblePass(SwapPairs(c, i - 2, i), i + 2)
         ELSE BubblePass(c, i + 2)

\* The passes are repeated until one of them swaps nothing.
RECURSIVE BubbleLoop(_, _)
BubbleLoop(c, start) ==
    LET pass == BubblePass(c, start + 2)
    IN  IF pass = c THEN c ELSE BubbleLoop(pass, start)

\* A bubble sort that starts at the top of the mapping.
BubbleSortFromTop(c, start) == BubbleLoop(c, 1)

\* A bubble sort that stops after one pass.
BubbleSortOnePass(c, start) == BubblePass(c, start + 2)

BubbleSort(c, start) == BubbleLoop(c, start)

RECURSIVE configKeySort(_)
configKeySort(n) ==
    IF n.kind = "mapping"
    THEN LET p == PriorityPass(n.content, 1, ConfigKeySortPriority)
             c == BubbleSort(p.content, p.start)
         IN  [n EXCEPT !.content =
                 [i \in 1..Len(c) |-> IF i % 2 = 0 THEN configKeySort(c[i]) ELSE c[i]]]
    ELSE IF n.kind \in {"document", "sequence"}
    THEN [n EXCEPT !.content = [i \in 1..Len(n.content) |-> configKeySort(n.content[i])]]
    ELSE n

\* The trees handed to configKeySort: a resource with a nested spec, a
\* sequence of mappings, and a delivery config document.
ResourceTree ==
    MappingNode(<< ScalarNode("spec"),
                   MappingNode(<< ScalarNode("capacity"), ScalarNode("c"),
                                  ScalarNode("locations"), ScalarNode("l"),
                                  ScalarNode("moniker"), ScalarNode("m") >>),
                   ScalarNode("name"), ScalarNode("n"),
                   ScalarNode("apiVersion"), ScalarNode("v1"),
                   ScalarNode("kind"), ScalarNode("k") >>)

SequenceTree ==
    SequenceNode(<< MappingNode(<< ScalarNode("metadata"), ScalarNode("b"),
                                   ScalarNode("type"), ScalarNode("t"),
                                   ScalarNode("meta"), ScalarNode("a"),
                                   ScalarNode("Zone"), ScalarNode("z") >>),
                    ScalarNode("spec"),
                    MappingNode(<< ScalarNode("name"), ScalarNode("n"),
                                   ScalarNode("kind"), ScalarNode("k") >>) >>)

ConfigTree ==
    DocumentNode(<< MappingNode(<<
        ScalarNode("environments"),
        SequenceNode(<< MappingNode(<< ScalarNode("resources"), SequenceNode(<<>>),
                                       ScalarNode("name"), ScalarNode("testing") >>) >>),
        ScalarNode("artifacts"), SequenceNode(<< ScalarNode("y"), ScalarNode("x") >>),
        ScalarNode("application"), ScalarNode("app") >>) >>)

Trees == {ResourceTree, SequenceTree, ConfigTree}

\* The trees that differ from n by the insertion order of two neighbouring
\* keys of one mapping, at any depth.
RECURSIVE Reorderings(_)
Reorderings(n) ==
    LET here == IF n.kind = "mapping"
                THEN {[n EXCEPT !.content = SwapPairs(n.content, i, i + 2)] :
                         i \in {j \in 1..Len(n.content) : j % 2 = 1 /\ j + 3 <= Len(n.content)}}
                ELSE {}
        below == UNION {{[n EXCEPT !.content[k] = r] : r \in Reorderings(n.content[k])} :
                           k \in 1..Len(n.content)}
    IN  here \cup below

\* A tree arrives for serialization.
Build(t) ==
    /\ node = NoNode
    /\ node' = t
    /\ UNCHANGED <<sortedNode, firstNode, firstSorted, procVars>>

\* The same pairs were inserted in another order.
Reorder ==
    /\ node # NoNode
    /\ sortedNode = NoNode
    /\ \E r \in Reorderings(node) : node' = r
    /\ UNCHANGED <<sortedNode, firstNode, firstSorted, procVars>>

\* configKeySort(node)
Sort ==
    /\ node # NoNode
    /\ sortedNode = NoNode
    /\ sortedNode' = configKeySort(node)
    /\ firstNode' = IF firstNode = NoNode THEN node ELSE firstNode
    /\ firstSorted' = IF firstSorted = NoNode THEN sortedNode' ELSE firstSorted
    /\ UNCHANGED <<node, procVars>>

\* The sorted tree is what the next serialization starts from.
Resume ==
    /\ sortedNode # NoNode
    /\ node' = sortedNode
    /\ sortedNode' = NoNode
    /\ UNCHANGED <<firstNode, firstSorted, procVars>>

NextSort ==
    \/ \E t \in Trees : Build(t)
    \/ Reorder
    \/ Sort
    \/ Resume

SpecSort == InitProcessor /\ [][NextSort]_vars

\* ---------------------------------------------------------------------
\* Claims about configKeySort
\* ---------------------------------------------------------------------

\* The keys of a mapping node, in the order of its Content.
KeysOf(n) == [i \in 1..(Len(n.content) \div 2) |-> n.content[2 * i - 1].value]

\* The place of a key in the priority list, 0 for an unlisted key.
PriorityRank(k) ==
    LET at == {i \in 1..Len(ConfigKeySortPriority) : ConfigKeySortPriority[i] = k}
    IN  IF at = {} THEN 0 ELSE CHOOSE i \in at : TRUE

\* Key a belongs before key b: listed keys in the list's order, then the
\* unlisted keys in ascending order.
KeyBefore(a, b) ==
    IF PriorityRank(a) > 0 /\ PriorityRank(b) > 0 THEN PriorityRank(a) < PriorityRank(b)
    ELSE IF PriorityRank(a) > 0 THEN TRUE
    ELSE IF PriorityRank(b) > 0 THEN FALSE
    ELSE StringGreater(b, a)

RECURSIVE EveryMappingOrdered(_)
EveryMappingOrdered(n) ==
    /\ n.kind = "mapping" =>
          \A i, j \in 1..Len(KeysOf(n)) : i < j => KeyBefore(KeysOf(n)[i], KeysOf(n)[j])
    /\ \A k \in 1..Len(n.content) : EveryMappingOrdered(n.content[k])

\* b holds what a holds: each mapping the same keys with the same values in
\* some order, each sequence the same elements in the same order.
RECURSIVE SamePairs(_, _)
SamePairs(a, b) ==
    /\ a.kind = b.kind
    /\ a.value = b.value
    /\ Len(a.content) = Len(b.content)
    /\ IF a.kind = "mapping"
       THEN \A i \in {k \in 1..Len(a.content) : k % 2 = 1} :
                \E j \in {k \in 1..Len(b.content) : k % 2 = 1} :
                    /\ a.content[i] = b.content[j]
                    /\ SamePairs(a.content[i + 1], b.content[j + 1])
       ELSE \A k \in 1..Len(a.content) : SamePairs(a.content[k], b.content[k])

\* C9: after configKeySort every mapping of the tree, at every depth and
\* inside sequences too, has its listed keys first in the order of
\* ConfigKeySortPriority and then its other keys in ascending order, and
\* every key still has the value it had.
C9_PriorityThenLexicographic ==
    sortedNode # NoNode =>
        /\ EveryMappingOrdered(sortedNode)
        /\ SamePairs(node, sortedNode)

\* C9 witness: a resource whose keys were inserted in another order comes
\* out with kind before name, both before apiVersion, and its nested spec
\* ordered as well.
C9_Witness ==
    /\ sortedNode # NoNode
    /\ node # sortedNode
    /\ sortedNode.kind = "mapping"
    /\ KeysOf(node) = <<"apiVersion", "spec", "name", "kind">>
    /\ KeysOf(sortedNode) = <<"kind", "name", "apiVersion", "spec">>
    /\ KeysOf(node.content[4]) = <<"capacity", "moniker", "locations">>
    /\ KeysOf(sortedNode.content[8]) = <<"moniker", "locations", "capacity">>

\* C10: whatever order the keys of the mappings were inserted in,
\* configKeySort gives the tree it gave for the first order; sorting a sorted
\* tree changes nothing; every sequence keeps the order of its elements.
C10_OrderIndependentIdempotent ==
    sortedNode # NoNode =>
        /\ sortedNode = firstSorted
        /\ configKeySort(sortedNode) = sortedNode
        /\ node = firstSorted => sortedNode = node
        /\ SamePairs(firstNode, sortedNode)

\* C10 witness: a sequence of mappings sorted from a second insertion order,
\* neither order being the sorted one.
C10_Witness ==
    /\ sortedNode # NoNode
    /\ node.kind = "sequence"
    /\ node # firstNode
    /\ node # sortedNode
    /\ firstNode # firstSorted
    /\ sortedNode = firstSorted

----------------------------------------------------------------------------
(* Save *)

\* The top-level mapping as configKeySort sees it: it orders by key.
TopLevelNode(keys) ==
    MappingNode([i \in 1..(2 * Len(keys)) |->
                    IF i % 2 = 1 THEN ScalarNode(keys[(i + 1) \div 2]) ELSE ScalarNode("")])

\* The top-level keys after configKeySort(&root).
SortedKeys(keys) == KeysOf(configKeySort(TopLevelNode(keys)))

\* kindNode.LineComment for every resource node of every environment node:
\* "<moniker>/<account>" of the typed resource at the same indexes.
KindComments(rawEs, es) ==
    [i \in 1..Len(rawEs.value) |->
        IF rawEs.value[i].resources.present /\ i <= Len(es)
        THEN [j \in 1..Len(rawEs.value[i].resources.value) |->
                [moniker |-> es[i].resources[j].name,
                 account |-> es[i].resources[j].locations.account]]
        ELSE <<>>]

\* Save dereferences the environments node without a nil check and indexes
\* the typed model with the indexes of the raw nodes.
SavePanics(rawEs, es) ==
    \/ ~rawEs.present
    \/ \E i \in 1..Len(rawEs.value) :
          /\ rawEs.value[i].resources.present
          /\ rawEs.value[i].resources.value # <<>>
          /\ \/ i > Len(es)
             \/ Len(rawEs.value[i].resources.value) > Len(es[i].resources)

\* The application value after Save: set from p.appName when the key is
\* missing and there is an application name.
ApplicationAtSave(app, name) ==
    IF ~app.present /\ name # "" THEN Some(<<name>>) ELSE app

\* The name value after Save: Save does not touch it.
NameAtSave(nm, name) == nm

\* The artifacts value left as it is.
ArtifactsUntouched(as) == as

\* The artifacts value after Save: an empty sequence when the key is missing.
ArtifactsAtSave(as) == IF as.present THEN as ELSE Some(<<>>)

\* The top-level keys with "artifacts" added whether it is there or not.
KeysAppended(keys, app, name) == Append(keys, "artifacts")

\* The top-level keys after the two assignments of Save.
KeysAtSave(keys, app, name) ==
    AssignKey(IF ~app.present /\ name # "" THEN AssignKey(keys, "application") ELSE keys,
              "artifacts")

\* The bytes Save writes for a raw document and typed model: marshalled,
\* read back, sorted with configKeySort and marshalled with indent 2.
SaveOutput(keys, nm, app, as, rawEs, es, name) ==
    [indent |-> 2,
     keys |-> SortedKeys(KeysAtSave(keys, app, name)),
     name |-> NameAtSave(nm, name),
     application |-> ApplicationAtSave(app, name),
     artifacts |-> ArtifactsAtSave(as),
     environments |-> rawEs,
     comments |-> KindComments(rawEs, es)]

Save ==
    /\ loaded
    /\ rawApplication' = ApplicationAtSave(rawApplication, appName)
    /\ rawArtifacts' = ArtifactsAtSave(rawArtifacts)
    /\ rawKeys' = KeysAtSave(rawKeys, rawApplication, appName)
    /\ rawName' = NameAtSave(rawName, appName)
    /\ LET panic == SavePanics(rawEnvs, envs)
           output == SaveOutput(rawKeys, rawName, rawApplication, rawArtifacts,
                                rawEnvs, envs, appName)
       IN  /\ pContent' = IF panic THEN pContent ELSE output
           /\ written' = IF panic THEN written ELSE output
           /\ last' = [op |-> "save", panic |-> panic,
                       fresh |-> last.op = "load" /\ last.file.state = "file",
                       contentBefore |-> pContent,
                       nameBefore |-> rawName, applicationBefore |-> rawApplication,
                       artifactsBefore |-> rawArtifacts, keysBefore |-> rawKeys]
    /\ UNCHANGED <<loaded, providers, envs, rawEnvs, artifacts, now, prev, calls,
                   appName, apiVars, sortVars, exported, find>>

\* The environments of the files of SpecDocument: none, an empty list, an
\* environment whose resource inherits its locations, one without resources.
DocumentEnvironments ==
    { Absent, Some(<<>>),
      Some(<< [name |-> "testing", locations |-> TestLocations,
               resources |-> Some(<< [kind |-> <<"ec2", "cluster", "v1">>,
                                      locations |-> EmptyLocations,
                                      name |-> "app", payload |-> 1] >>),
               constraints |-> UserValue, notifications |-> Absent,
               verifyWith |-> Absent, postDeploy |-> UserValue] >>),
      Some(<< [name |-> "testing", locations |-> EmptyLocations,
               resources |-> Absent,
               constraints |-> Absent, notifications |-> Absent,
               verifyWith |-> Absent, postDeploy |-> Absent] >>) }

DocumentArtifacts ==
    { Absent,
      Some(<< [name |-> <<"x">>, reference |-> <<>>,
               tagVersionStrategy |-> "", vmOptions |-> [baseOs |-> "bionic"]] >>) }

\* The keys of a file in one of two orders.
FileKeys(nm, app, as, es, reversed) ==
    LET a == IF as.present THEN <<"artifacts">> ELSE <<>>
        e == IF es.present THEN <<"environments">> ELSE <<>>
        n == IF nm.present THEN <<"name">> ELSE <<>>
        p == IF app.present THEN <<"application">> ELSE <<>>
    IN  IF reversed THEN e \o a \o p \o n ELSE n \o p \o a \o e

\* The files Load finds, and a missing and an unreadable one.
Documents ==
    { [indent |-> IF rev THEN 4 ELSE 2, keys |-> FileKeys(nm, app, as, es, rev),
       name |-> nm, application |-> app, artifacts |-> as, environments |-> es,
       comments |-> NoComments(es)] :
        nm \in {Absent, Some(<<"mine">>)}, app \in {Absent, Some(<<"other">>)},
        as \in DocumentArtifacts, es \in DocumentEnvironments, rev \in BOOLEAN }

MissingFile == [state |-> "missing", doc |-> NoBytes]
UnreadableFile == [state |-> "unreadable", doc |-> NoBytes]

\* The process ends when Save panics.
Crashed == last.op = "save" /\ last.panic

InitDocument ==
    /\ loaded = FALSE
    /\ providers = DefaultProviders
    /\ envs = <<>>
    /\ rawEnvs = Absent
    /\ artifacts = <<>>
    /\ rawArtifacts = Absent
    /\ now = 1
    /\ last = NoCall
    /\ prev = NoCall
    /\ calls = 0
    /\ appName \in {"", "app"}
    /\ rawKeys = <<>>
    /\ rawName = Absent
    /\ rawApplication = Absent
    /\ pContent = NoBytes
    /\ written = NoBytes
    /\ baseURL = ""
    /\ api = NoCall
    /\ exported = NoContent
    /\ find = NoCall
    /\ node = NoNode
    /\ sortedNode = NoNode
    /\ firstNode = NoNode
    /\ firstSorted = NoNode

\* A first Load of any of the files; a second Load of the file a formatting
\* pass (Load, then Save) wrote, or after the file was removed or made
\* unreadable; UpsertResource, InsertArtifact and Save as Export calls them.
NextDocument ==
    \/ \E doc \in Documents : ~loaded /\ Load([state |-> "file", doc |-> doc])
    \/ ~loaded /\ Load(MissingFile)
    \/ /\ ~Crashed /\ last.op = "save" /\ last.fresh
       /\ Load([state |-> "file", doc |-> written])
    \/ /\ last.op = "load" /\ last.file.state = "file"
       /\ \E file \in {MissingFile, UnreadableFile} : Load(file)
    \/ /\ ~Crashed
       /\ UpsertResource(CHOOSE r \in Identities : r.Name = "app", "testing",
                         CHOOSE c \in Contents : c.payload = 2)
    \/ /\ ~Crashed
       /\ InsertArtifact([name |-> <<"x">>, reference |-> <<>>, tagVersionStrategy |-> "",
                          vmOptions |-> [baseOs |-> ""]], now)
    \/ ~Crashed /\ Save

SpecDocument == InitDocument /\ [][NextDocument]_vars

----------------------------------------------------------------------------
(* Claims about Load and Save *)

\* What Load followed by Save writes for the file doc.
Format(doc) ==
    SaveOutput(doc.keys, doc.name, doc.application, doc.artifacts, doc.environments,
               ToDeliveryEnvironments(doc.environments), appName)

\* C11 as stated: a Save that follows the Load of a file with nothing in
\* between writes the bytes that were loaded.
C11_RoundTrip ==
    (last.op = "save" /\ last.fresh) =>
        /\ ~last.panic
        /\ written = last.contentBefore

\* C11: the formatting pass is idempotent.  What Load followed by Save with
\* nothing in between wrote is written again, byte for byte, by Load followed
\* by Save on that file; this includes that Save does not panic on it.
C11_FormattingIdempotent ==
    (last.op = "save" /\ last.fresh /\ ~last.panic) =>
        /\ ~SavePanics(written.environments, ToDeliveryEnvironments(written.environments))
        /\ Format(written) = written
        /\ last.contentBefore = Format(last.contentBefore) => written = last.contentBefore

\* C11 witness: a file with a resource that an earlier pass had to change
\* was loaded again and saved to the same bytes.
C11_Witness ==
    /\ last.op = "save" /\ last.fresh /\ ~last.panic
    /\ written = last.contentBefore
    /\ written.environments.present
    /\ written.environments.value # <<>>
    /\ written.comments # NoComments(written.environments)

\* C12 as stated: with an application name set, Save sets a missing name to
\* "<appName>-manifest" and a missing application to appName, and leaves a
\* name or application that is there as it is.
C12_NameAndApplicationDefaults ==
    (last.op = "save" /\ ~last.panic /\ appName # "") =>
        /\ written.name = IF last.nameBefore.present THEN last.nameBefore
                          ELSE Some(<<appName, "manifest">>)
        /\ written.application = IF last.applicationBefore.present THEN last.applicationBefore
                                 ELSE Some(<<appName>>)

C14_LoadResetsEverything ==
    (last.op = "load" /\ ~last.err) =>
        /\ loaded
        /\ envs = ToDeliveryEnvironments(last.file.doc.environments)
        /\ artifacts = last.file.doc.artifacts.value
        /\ rawEnvs = last.file.doc.environments
        /\ rawArtifacts = last.file.doc.artifacts
        /\ rawKeys = last.file.doc.keys
        /\ rawName = last.file.doc.name
        /\ rawApplication = last.file.doc.application
        /\ pContent = last.file.doc

----------------------------------------------------------------------------
(* The client: commonRequest *)

NoDetail == [error |-> "", status |-> 0, message |-> ""]

\* A response body: JSON of the diff api (a list of batches of resource
\* ids), JSON of a validation error, or something that is not JSON.
NoBody == [form |-> "empty", diffs |-> <<>>, detail |-> NoDetail]
TextBody == [form |-> "text", diffs |-> <<>>, detail |-> NoDetail]
DetailBody ==
    [form |-> "detail", diffs |-> <<>>,
     detail |-> [error |-> "Bad Request", status |-> 400, message |-> "invalid kind"]]
DiffBody(batches) == [form |-> "diffs", diffs |-> batches, detail |-> NoDetail]

\* What cli.httpClient and the read of the response body come to: an error
\* of the transport, a status whose body cannot be read, or a response.
TransportError == [kind |-> "error", status |-> 0, body |-> NoBody]
UnreadableBody(status) == [kind |-> "unreadable", status |-> status, body |-> NoBody]
Response(status, body) == [kind |-> "response", status |-> status, body |-> body]

NoError == [kind |-> "none", StatusCode |-> 0, URL |-> <<>>, Content |-> NoBody]
PlainError(kind) == [kind |-> kind, StatusCode |-> 0, URL |-> <<>>, Content |-> NoBody]
ErrorUnexpectedResponse(status, u, body) ==
    [kind |-> "ErrorUnexpectedResponse", StatusCode |-> status, URL |-> u, Content |-> body]

\* The status check of the earlier revision: 200 and 201 only.
IsSuccessOld(status) == status = 200 \/ status = 201

\* resp.StatusCode < 200 || resp.StatusCode > 299 is false
IsSuccess(status) == ~(status < 200 \/ status > 299)

\* commonRequest(cli, method, u, body): the requests sent, and (content, err).
commonRequest(method, path, body, outcome) ==
    LET u == <<baseURL, path>>
        req == [method |-> method, url |-> u, body |-> body,
                contentType |-> "application/x-yaml", accept |-> "application/json"]
        failed(e) == [sent |-> <<req>>, returned |-> FALSE, content |-> NoBody, err |-> e]
    IN  IF baseURL = ""
        THEN [sent |-> <<>>, returned |-> FALSE, content |-> NoBody,
              err |-> PlainError("no base url")]
        ELSE IF outcome.kind = "error" THEN failed(PlainError("failed to send"))
        ELSE IF outcome.kind = "unreadable" THEN failed(PlainError("failed to read"))
        ELSE IF ~IsSuccess(outcome.status)
        THEN failed(ErrorUnexpectedResponse(outcome.status, u, outcome.body))
        ELSE [sent |-> <<req>>, returned |-> TRUE, content |-> outcome.body, err |-> NoError]

NoRequest == [sent |-> <<>>, returned |-> FALSE, content |-> NoBody, err |-> NoError]

----------------------------------------------------------------------------
(* Publish, Diff, Validate *)

\* strings.Split(id, ":") on the bytes of id (58 is the colon).
RECURSIVE Split(_)
Split(b) ==
    IF \E i \in 1..Len(b) : b[i] = 58
    THEN LET i == CHOOSE k \in 1..Len(b) : b[k] = 58 /\ \A j \in 1..(k - 1) : b[j] # 58
         IN  <<SubSeq(b, 1, i - 1)>> \o Split(SubSeq(b, i + 1, Len(b)))
    ELSE <<b>>

\* Go's a < b on strings.
BytesLess(a, b) == BytesGreater(b, a)

\* The comparison by resource id alone.
LessById(idI, idJ) == BytesLess(Bytes(idI), Bytes(idJ))

\* The less function Diff gives to sort.Slice.
DiffLess(idI, idJ) ==
    LET idPartsI == Split(Bytes(idI))
        idPartsJ == Split(Bytes(idJ))
    IN  IF /\ idPartsI[1] = idPartsJ[1]
           /\ Len(idPartsI) > 2 /\ Len(idPartsJ) > 2
           /\ idPartsI[3] # idPartsJ[3]
        THEN BytesLess(idPartsI[3], idPartsJ[3])
        ELSE BytesLess(Bytes(idI), Bytes(idJ))

\* sort.Slice on a short slice is an insertion sort: element i moves down
\* while it is less than the one before it.
RECURSIVE InsertDown(_, _)
InsertDown(d, j) ==
    IF j > 1 /\ DiffLess(d[j].ResourceID, d[j - 1].ResourceID)
    THEN InsertDown([d EXCEPT ![j] = d[j - 1], ![j - 1] = d[j]], j - 1)
    ELSE d

RECURSIVE InsertionSort(_, _)
InsertionSort(d, i) == IF i > Len(d) THEN d ELSE InsertionSort(InsertDown(d, i), i + 1)

\* diffs = append(diffs, accountDiffs.ResourceDiffs...) over the batches.
RECURSIVE Flatten(_)
Flatten(batches) == IF batches = <<>> THEN <<>> ELSE Head(batches) \o Flatten(Tail(batches))

\* The value Diff returns for the content of a 2xx response.
SortedDiffs(batches) == InsertionSort(Flatten(batches), 2)

\* The raw document, as far as the model keeps it.
RawDocument(keys, nm, app, as, es) ==
    [keys |-> keys, name |-> nm, application |-> app, artifacts |-> as, environments |-> es]

\* The processor part of a call that loads first when cond holds.
LoadIf(cond, file) ==
    IF cond THEN LoadFile(file)
    ELSE UNCHANGED <<loaded, providers, envs, rawEnvs, artifacts, rawArtifacts, now, last,
                     prev, calls, rawKeys, fileVars, sortVars, exported, find>>

\* The path with force=true whatever the flag.
PublishPathForced(force) == "/managed/delivery-configs?force=true"

\* fmt.Sprintf("/managed/delivery-configs?force=%t", force)
PublishPath(force) ==
    IF force THEN "/managed/delivery-configs?force=true"
    ELSE "/managed/delivery-configs?force=false"

Publish(force, file, outcome) ==
    LET load == ~loaded
        loadErr == load /\ file.state = "unreadable"
        path == PublishPath(force)
    IN  /\ LoadIf(load, file)
        /\ LET r == IF loadErr THEN NoRequest
                    ELSE commonRequest("POST", path, pContent', outcome)
           IN  api' = [op |-> "Publish", force |-> force, load |-> load, loadErr |-> loadErr,
                       outcome |-> outcome, request |-> r,
                       err |-> loadErr \/ r.err # NoError,
                       detail |-> NoDetail, hasDetail |-> FALSE, diffs |-> <<>>,
                       raw |-> RawDocument(rawKeys', rawName', rawApplication',
                                           rawArtifacts', rawEnvs')]
        /\ UNCHANGED baseURL

Diff(file, outcome) ==
    LET load == pContent = NoBytes
        loadErr == load /\ file.state = "unreadable"
    IN  /\ LoadIf(load, file)
        /\ LET r == IF loadErr THEN NoRequest
                    ELSE commonRequest("POST", "/managed/delivery-configs/diff", pContent', outcome)
               parsed == r.returned /\ r.content.form = "diffs"
           IN  api' = [op |-> "Diff", force |-> FALSE, load |-> load, loadErr |-> loadErr,
                       outcome |-> outcome, request |-> r,
                       err |-> ~parsed,
                       detail |-> NoDetail, hasDetail |-> FALSE,
                       diffs |-> IF parsed THEN SortedDiffs(r.content.diffs) ELSE <<>>,
                       raw |-> RawDocument(rawKeys', rawName', rawApplication',
                                           rawArtifacts', rawEnvs')]
        /\ UNCHANGED baseURL

\* Every ErrorUnexpectedResponse taken for a validation error.
IsValidationErrorAnyStatus(e) == e.kind = "ErrorUnexpectedResponse"

\* errors.As(err, &errResp) && errResp.StatusCode == http.StatusBadRequest
IsValidationError(e) == e.kind = "ErrorUnexpectedResponse" /\ e.StatusCode = 400

\* errResp.Parse(&validation): json.Unmarshal into the zero value.
ParseDetail(body) == IF body.form = "detail" THEN body.detail ELSE NoDetail

Validate(file, outcome) ==
    LET load == pContent = NoBytes
        loadErr == load /\ file.state = "unreadable"
    IN  /\ LoadIf(load, file)
        /\ LET r == IF loadErr THEN NoRequest
                    ELSE commonRequest("POST", "/managed/delivery-configs/validate",
                                       pContent', outcome)
               invalid == ~loadErr /\ IsValidationError(r.err)
           IN  api' = [op |-> "Validate", force |-> FALSE, load |-> load, loadErr |-> loadErr,
                       outcome |-> outcome, request |-> r,
                       err |-> loadErr \/ r.err # NoError,
                       detail |-> IF invalid THEN ParseDetail(r.err.Content) ELSE NoDetail,
                       hasDetail |-> invalid, diffs |-> <<>>,
                       raw |-> RawDocument(rawKeys', rawName', rawApplication',
                                           rawArtifacts', rawEnvs')]
        /\ UNCHANGED baseURL

\* The files of SpecApi: a document with a resource and an artifact, and an
\* empty one.
ApiDocuments ==
    { d \in Documents : /\ d.indent = 2 /\ d.name.present /\ d.application.present
                        /\ d.artifacts.present
                        /\ d.environments.present
                        /\ \A i \in 1..Len(d.environments.value) :
                              d.environments.value[i].resources.present }

ApiFiles == {MissingFile, UnreadableFile} \cup {[state |-> "file", doc |-> d] : d \in ApiDocuments}

Statuses == {200, 299, 300, 400, 500}

PublishOutcomes ==
    {TransportError, UnreadableBody(500)} \cup {Response(st, NoBody) : st \in Statuses}

ValidateOutcomes ==
    {TransportError, UnreadableBody(400), Response(200, NoBody), Response(299, NoBody),
     Response(300, TextBody), Response(400, DetailBody), Response(400, TextBody),
     Response(500, DetailBody)}

ResourceIDs ==
    {"ec2:cluster:test:app", "ec2:cluster:prod:app", "ec2:security-group:prod:app",
     "titus:cluster:test:app", "cluster:test:dev", "cluster:test:prod"}

ManagedResourceDiff(id) == [ResourceID |-> id]

\* The batches of the diff api: up to two diffs in one batch, and three in two.
DiffBatches ==
    LET ec2 == {id \in ResourceIDs : Split(Bytes(id))[1] = Bytes("ec2")}
    IN  {<<>>}
        \cup {<< <<ManagedResourceDiff(a)>> >> : a \in ResourceIDs}
        \cup {<< <<ManagedResourceDiff(t[1]), ManagedResourceDiff(t[2])>> >> :
                 t \in {u \in ResourceIDs \X ResourceIDs : u[1] # u[2]}}
        \cup {<< <<ManagedResourceDiff(t[1]), ManagedResourceDiff(t[2])>>,
                 <<ManagedResourceDiff(t[3])>> >> :
                 t \in {u \in ec2 \X ec2 \X ec2 : u[1] # u[2] /\ u[1] # u[3] /\ u[2] # u[3]}}

DiffOutcomes ==
    {TransportError, Response(200, TextBody), Response(500, TextBody)}
    \cup {Response(200, DiffBody(b)) : b \in DiffBatches}

InitApi ==
    /\ loaded = FALSE
    /\ providers = DefaultProviders
    /\ envs = <<>>
    /\ rawEnvs = Absent
    /\ artifacts = <<>>
    /\ rawArtifacts = Absent
    /\ now = 1
    /\ last = NoCall
    /\ prev = NoCall
    /\ calls = 0
    /\ appName = "app"
    /\ rawKeys = <<>>
    /\ rawName = Absent
    /\ rawApplication = Absent
    /\ pContent = NoBytes
    /\ written = NoBytes
    /\ baseURL \in {"", "http://gate"}
    /\ api = NoCall
    /\ exported = NoContent
    /\ find = NoCall
    /\ node = NoNode
    /\ sortedNode = NoNode
    /\ firstNode = NoNode
    /\ firstSorted = NoNode

\* The files a call that has to load may find.
FilesFor(load) == IF load THEN ApiFiles ELSE {MissingFile}

\* A command: Load, UpsertResource, InsertArtifact and Save as Export calls
\* them, then one call of the api (the publish, diff and validate commands
\* make the call on a new processor, which loads first).
NextApi ==
    \/ \E file \in ApiFiles : ~loaded /\ api = NoCall /\ Load(file)
    \/ /\ ~Crashed /\ api = NoCall
       /\ UpsertResource(CHOOSE r \in Identities : r.Name = "app", "testing",
                         CHOOSE c \in Contents : c.payload = 2)
    \/ /\ ~Crashed /\ api = NoCall
       /\ InsertArtifact([name |-> <<"x">>, reference |-> <<>>, tagVersionStrategy |-> "",
                          vmOptions |-> [baseOs |-> ""]], now)
    \/ ~Crashed /\ api = NoCall /\ Save
    \/ /\ ~Crashed /\ api = NoCall
       /\ \E force \in BOOLEAN, file \in FilesFor(~loaded), outcome \in PublishOutcomes :
              Publish(force, file, outcome)
    \/ /\ ~Crashed /\ api = NoCall
       /\ \E file \in FilesFor(pContent = NoBytes), outcome \in DiffOutcomes :
              Diff(file, outcome)
    \/ /\ ~Crashed /\ api = NoCall
       /\ \E file \in FilesFor(pContent = NoBytes), outcome \in ValidateOutcomes :
              Validate(file, outcome)

SpecApi == InitApi /\ [][NextApi]_vars

----------------------------------------------------------------------------
(* Claims about Publish, Diff, Validate and commonRequest *)

\* The ids of a list of diffs.
IdsOf(d) == [i \in 1..Len(d) |-> d[i].ResourceID]

\* The order of C15 as stated: two ids with the same first two segments that
\* have different third segments go by the third segment, any other two by
\* the whole id.
BeforeByFamily(a, b) ==
    LET pa == Split(Bytes(a))
        pb == Split(Bytes(b))
    IN  IF /\ Len(pa) > 2 /\ Len(pb) > 2
           /\ pa[1] = pb[1] /\ pa[2] = pb[2] /\ pa[3] # pb[3]
        THEN BytesLess(pa[3], pb[3])
        ELSE a = b \/ BytesLess(Bytes(a), Bytes(b))

\* The order of the code: two ids with the same first segment that have
\* different third segments go by the third segment, any other two by the
\* whole id.
BeforeByProvider(a, b) ==
    LET pa == Split(Bytes(a))
        pb == Split(Bytes(b))
    IN  IF /\ Len(pa) > 2 /\ Len(pb) > 2
           /\ pa[1] = pb[1] /\ pa[3] # pb[3]
        THEN BytesLess(pa[3], pb[3])
        ELSE a = b \/ BytesLess(Bytes(a), Bytes(b))

SerializationOf(body, raw) ==
    /\ {body.keys[i] : i \in 1..Len(body.keys)} = {raw.keys[i] : i \in 1..Len(raw.keys)}
    /\ body.name = raw.name
    /\ body.application = raw.application
    /\ body.artifacts = raw.artifacts
    /\ body.environments = raw.environments

\* C16 as stated: the body of the request Publish, Diff or Validate sends is
\* the serialization of the raw document as it is at the time of the call.
C16_BodyIsRawDocument ==
    (api.op \in {"Publish", "Diff", "Validate"} /\ api.request.sent # <<>>) =>
        SerializationOf(api.request.sent[1].body, api.raw)

C18_ValidationDetailOn400 ==
    api.op = "Validate" =>
        LET answered == ~api.loadErr /\ baseURL # "" /\ api.outcome.kind = "response"
        IN  /\ api.hasDetail <=> (answered /\ api.outcome.status = 400)
            /\ api.hasDetail => api.detail = ParseDetail(api.outcome.body)
            /\ (answered /\ api.outcome.status \in 200..299) => ~api.hasDetail /\ ~api.err
            /\ ~(answered /\ api.outcome.status \in (200..299) \cup {400}) =>
                  ~api.hasDetail /\ api.err

\* C18 witness: a 400 whose body is a validation error.
C18_Witness ==
    /\ api.op = "Validate"
    /\ api.outcome = Response(400, DetailBody)
    /\ api.hasDetail
    /\ api.detail = DetailBody.detail

\* C19: of every request, a response with a status outside 200..299 comes
\* back as an ErrorUnexpectedResponse with that status, the url and the body,
\* and no content; a 2xx response comes back as its body and no error; with
\* no base URL there is an error and nothing is sent.
C19_UnexpectedResponse ==
    (api.op \in {"Publish", "Diff", "Validate"} /\ ~api.loadErr) =>
        LET r == api.request
            o == api.outcome
        IN  /\ baseURL = "" => r.sent = <<>> /\ r.err # NoError /\ ~r.returned
            /\ (baseURL # "" /\ o.kind = "response" /\ o.status \notin 200..299) =>
                  /\ Len(r.sent) = 1
                  /\ r.err = [kind |-> "ErrorUnexpectedResponse", StatusCode |-> o.status,
                              URL |-> r.sent[1].url, Content |-> o.body]
                  /\ r.sent[1].url[1] = baseURL
                  /\ ~r.returned
            /\ (baseURL # "" /\ o.kind = "response" /\ o.status \in 200..299) =>
                  /\ Len(r.sent) = 1
                  /\ r.returned
                  /\ r.content = o.body
                  /\ r.err = NoError

\* C19 witness: status 299 of the diff api, returned as content.
C19_Witness ==
    /\ api.op = "Diff"
    /\ api.outcome.kind = "response"
    /\ api.outcome.status = 299 \/ api.outcome.body.form = "diffs"
    /\ api.request.returned
    /\ api.request.content = api.outcome.body
    /\ baseURL # ""

----------------------------------------------------------------------------
(* UpdateArtifactReference *)

\* strings.HasPrefix on the bytes.
HasPrefix(b, prefix) == Len(b) >= Len(prefix) /\ SubSeq(b, 1, Len(prefix)) = prefix

\* The content bytes of a resource, as yaml.Unmarshal into a map reads them:
\* whether they parse, whether they are as yaml.Marshal writes a map, the
\* kind (a string, missing, or another type) and the spec with its
\* container, imageProvider and artifactReference.
ExportedKinds ==
    {"titus/cluster@v1", "titus/cluster@v1.1", "ec2/cluster@v1", "ec2/cluster@v1.1",
     "ec2/security-group@v1"}

ExportedSpecs ==
    { [type |-> "absent", container |-> NoValue, imageProvider |-> NoValue,
       artifactReference |-> ""],
      [type |-> "scalar", container |-> NoValue, imageProvider |-> NoValue,
       artifactReference |-> ""] }
    \cup { [type |-> "map", container |-> c, imageProvider |-> i, artifactReference |-> a] :
             c \in {NoValue, ScalarValue, MapValue("old")},
             i \in {NoValue, ScalarValue, MapValue("old")},
             a \in {"", "old"} }

ExportedContents ==
    { [parses |-> TRUE, marshalled |-> FALSE, kindType |-> "string", kind |-> k, spec |-> sp] :
        k \in ExportedKinds, sp \in ExportedSpecs }
    \cup { [parses |-> TRUE, marshalled |-> FALSE, kindType |-> t, kind |-> "", spec |-> sp] :
        t \in {"absent", "number"}, sp \in ExportedSpecs }
    \cup { [NoContent EXCEPT !.kindType = "string", !.kind = "ec2/cluster@v1"] }

\* The outcome of UpdateArtifactReference(&content, updatedRef): the error
\* ("" for nil) and the bytes the caller holds afterwards.
UpdateOutcome(c, updatedRef) ==
    LET fail(e) == [err |-> e, content |-> c]
        done(sp) == [err |-> "", content |-> [c EXCEPT !.marshalled = TRUE, !.spec = sp]]
    IN  IF ~c.parses THEN fail("failed to parse")
        ELSE IF c.kindType # "string" THEN done(c.spec)
        ELSE IF HasPrefix(Bytes(c.kind), Bytes("titus/cluster@v1"))
        THEN IF c.spec.type # "map" THEN fail("missing spec")
             ELSE IF c.spec.container.type # "map" THEN fail("missing spec.container")
             ELSE done([c.spec EXCEPT !.container = MapValue(updatedRef)])
        ELSE IF c.kind = "ec2/cluster@v1"
        THEN IF c.spec.type # "map" THEN fail("missing spec")
             ELSE IF c.spec.imageProvider.type # "map" THEN fail("missing spec.imageProvider")
             ELSE done([c.spec EXCEPT !.imageProvider = MapValue(updatedRef)])
        ELSE IF c.kind = "ec2/cluster@v1.1"
        THEN IF c.spec.type # "map" THEN fail("missing spec")
             ELSE done([c.spec EXCEPT !.artifactReference = updatedRef])
        ELSE fail("unexpected kind")

UpdateArtifactReference(updatedRef) ==
    /\ exported # NoContent
    /\ LET out == UpdateOutcome(exported, updatedRef)
       IN  /\ exported' = out.content
           /\ last' = [op |-> "updateRef", content |-> exported, updatedRef |-> updatedRef,
                       err |-> out.err]
    /\ UNCHANGED <<loaded, providers, envs, rawEnvs, artifacts, rawArtifacts, now, prev, calls,
                   rawKeys, fileVars, apiVars, sortVars, find>>

\* Export has the content of a resource in hand.
ExportResource(c) ==
    /\ exported = NoContent
    /\ exported' = c
    /\ UNCHANGED <<loaded, providers, envs, rawEnvs, artifacts, rawArtifacts, now, last, prev,
                   calls, rawKeys, fileVars, apiVars, sortVars, find>>

NextReference ==
    \/ \E c \in ExportedContents : ExportResource(c)
    \/ \E updatedRef \in {"x-1", "y"} : UpdateArtifactReference(updatedRef)

SpecReference == InitProcessor /\ [][NextReference]_vars

\* The field UpdateArtifactReference sets for the kind of c.
ReferenceField(c) ==
    IF HasPrefix(Bytes(c.kind), Bytes("titus/cluster@v1")) THEN c.spec.container.reference
    ELSE IF c.kind = "ec2/cluster@v1" THEN c.spec.imageProvider.reference
    ELSE c.spec.artifactReference

\* The kind of c is one of those UpdateArtifactReference knows.
RecognizedKind(c) ==
    /\ c.kindType = "string"
    /\ \/ HasPrefix(Bytes(c.kind), Bytes("titus/cluster@v1"))
       \/ c.kind \in {"ec2/cluster@v1", "ec2/cluster@v1.1"}

\* The structure UpdateArtifactReference expects for the kind of c is there.
ExpectedStructure(c) ==
    /\ c.spec.type = "map"
    /\ HasPrefix(Bytes(c.kind), Bytes("titus/cluster@v1")) => c.spec.container.type = "map"
    /\ c.kind = "ec2/cluster@v1" => c.spec.imageProvider.type = "map"

\* C20 as stated: UpdateArtifactReference fails for every resource whose kind
\* is not a recognized one and for a recognized kind whose expected structure
\* is missing; a failure leaves the caller's bytes as they were; after a
\* success the reference field of the kind is newRef.
C20_UnsupportedOrMalformedFails ==
    last.op = "updateRef" =>
        /\ (last.content.parses /\ ~RecognizedKind(last.content)) => last.err # ""
        /\ (last.content.parses /\ RecognizedKind(last.content)
               /\ ~ExpectedStructure(last.content)) => last.err # ""
        /\ last.err # "" => exported = last.content
        /\ last.err = "" => ReferenceField(exported) = last.updatedRef

----------------------------------------------------------------------------
(* FindApplicationResources *)

\* The fetches FindApplicationResources starts with g.Go, in that order.
Fetches == <<"ServerGroups", "LoadBalancers", "SecurityGroups">>
FetchNames == {Fetches[i] : i \in 1..Len(Fetches)}

\* What a fetch can have decoded into its field of data: nothing or one
\* element.
FetchedLists == {<<>>, <<"a">>}

\* An error group that keeps the latest error.
RecordLastError(gErr, f) == f

\* errOnce.Do of errgroup: the first error is kept.
RecordError(gErr, f) == IF gErr = "" THEN f ELSE gErr

\* FindApplicationResources up to g.Wait(): data is allocated and the three
\* fetches are started.
FindApplicationResources(name) ==
    /\ find = NoCall
    /\ find' = [op |-> "find", state |-> "waiting", AppName |-> name,
                fetch |-> [f \in FetchNames |-> "running"],
                data |-> [f \in FetchNames |-> <<>>],
                done |-> <<>>, gErr |-> "", result |-> Absent, err |-> ""]
    /\ UNCHANGED <<loaded, providers, envs, rawEnvs, artifacts, rawArtifacts, now, last, prev,
                   calls, rawKeys, fileVars, apiVars, sortVars, exported>>

\* One fetch returns: commonParsedGet has decoded list into the field of data
\* (a failed decoding may have written a part), and a non-nil error goes to
\* errOnce.
FetchReturns(f, ok, list) ==
    /\ find # NoCall
    /\ find.state = "waiting"
    /\ find.fetch[f] = "running"
    /\ find' = [find EXCEPT !.fetch[f] = IF ok THEN "ok" ELSE "failed",
                            !.data[f] = list,
                            !.done = Append(@, f),
                            !.gErr = IF ok THEN @ ELSE RecordError(@, f)]
    /\ UNCHANGED <<loaded, providers, envs, rawEnvs, artifacts, rawArtifacts, now, last, prev,
                   calls, rawKeys, fileVars, apiVars, sortVars, exported>>

\* g.Wait() returns once every goroutine is done, and FindApplicationResources
\* returns (nil, err) or (data, nil).
WaitReturns ==
    /\ find # NoCall
    /\ find.state = "waiting"
    /\ \A f \in FetchNames : find.fetch[f] # "running"
    /\ find' = [find EXCEPT !.state = "returned",
                            !.err = find.gErr,
                            !.result = IF find.gErr # "" THEN Absent
                                       ELSE Some([AppName |-> find.AppName, data |-> find.data])]
    /\ UNCHANGED <<loaded, providers, envs, rawEnvs, artifacts, rawArtifacts, now, last, prev,
                   calls, rawKeys, fileVars, apiVars, sortVars, exported>>

NextFind ==
    \/ \E name \in {"app", "other"} : FindApplicationResources(name)
    \/ \E f \in FetchNames, ok \in BOOLEAN, list \in FetchedLists : FetchReturns(f, ok, list)
    \/ WaitReturns

SpecFind == InitProcessor /\ [][NextFind]_vars

\* The fetches that failed, in the order they returned.
FailedInOrder == SelectSeq(find.done, LAMBDA f : find.fetch[f] = "failed")

\* C21: under every interleaving of the three fetches, FindApplicationResources
\* returns nothing before every fetch is done; if any fetch failed it returns
\* the error of the first one that failed and no ApplicationResources; it
\* returns the data exactly when every fetch succeeded.
C21_FirstErrorWins ==
    find # NoCall =>
        /\ find.state = "waiting" => (find.result = Absent /\ find.err = "")
        /\ find.state = "returned" =>
              /\ \A f \in FetchNames : find.fetch[f] # "running"
              /\ FailedInOrder # <<>> =>
                    (find.result = Absent /\ find.err = Head(FailedInOrder))
              /\ FailedInOrder = <<>> =>
                    /\ find.err = ""
                    /\ find.result = Some([AppName |-> find.AppName, data |-> find.data])
                    /\ \A f \in FetchNames : find.fetch[f] = "ok"

\* The call returned after two fetches failed, the later-started one first,
\* and a failed fetch had written a part of its list.
C21_Witness ==
    /\ find # NoCall
    /\ find.state = "returned"
    /\ Len(FailedInOrder) = 2
    /\ FailedInOrder[1] = "SecurityGroups"
    /\ find.data["SecurityGroups"] # <<>>
    /\ find.result = Absent

----------------------------------------------------------------------------
(* AllEnvironments *)

\* The default/recommended environment names, in the order of the code.
DefaultEnvNames == <<"testing", "staging", "production">>

\* The loop over environments that sets found.
Found(environments, envName) ==
    \E i \in 1..Len(environments) : environments[i] = envName

\* An envName appended whether found or not.
AppendEnvName(environments, envName) == Append(environments, envName)

\* One round of "ensure commonly used env names are available".
EnsureEnvName(environments, envName) ==
    IF ~Found(environments, envName) THEN Append(environments, envName) ELSE environments

RECURSIVE EnsureEnvNames(_, _)
EnsureEnvNames(environments, names) ==
    IF names = <<>> THEN environments
    ELSE EnsureEnvNames(EnsureEnvName(environments, Head(names)), Tail(names))

\* AllEnvironments() on the typed model es.
AllEnvironmentsOf(es) ==
    EnsureEnvNames([i \in 1..Len(es) |-> es[i].name], DefaultEnvNames)

AllEnvironments ==
    /\ last.op # "allEnvironments"
    /\ last' = [op |-> "allEnvironments", result |-> AllEnvironmentsOf(envs), after |-> last]
    /\ UNCHANGED <<loaded, providers, envs, rawEnvs, artifacts, rawArtifacts, now, prev, calls,
                   rawKeys, fileVars, apiVars, sortVars, exported, find>>

\* The environments of the files of SpecEnvironments: up to two environments
\* with different names, each with one resource.
NamedEnvs ==
    { [name |-> nm, locations |-> TestLocations,
       resources |-> Some(<<CHOOSE c \in Contents : c.payload = 1 /\ c.name = "app"
                                                     /\ c.locations = TestLocations>>),
       constraints |-> Absent, notifications |-> Absent,
       verifyWith |-> Absent, postDeploy |-> Absent] :
        nm \in {"testing", "staging", "production", "dev"} }

EnvironmentFiles ==
    {Absent, Some(<<>>)} \cup { Some(<<e>>) : e \in NamedEnvs }
    \cup { Some(<<t[1], t[2]>>) : t \in {u \in NamedEnvs \X NamedEnvs : u[1].name # u[2].name} }

NextEnvironments ==
    \/ \E es \in EnvironmentFiles : ~loaded /\ last = NoCall /\ Load(FileWith(es, Absent))
    \/ \E envName \in {"testing", "staging", "production", "dev"} :
            UpsertResource(CHOOSE r \in Identities : r.Name = "app", envName,
                           CHOOSE c \in Contents : c.payload = 2)
    \/ AllEnvironments

SpecEnvironments == InitProcessor /\ [][NextEnvironments]_vars

\* The names of the environments of the typed model, in order.
EnvironmentNames == [i \in 1..Len(envs) |-> envs[i].name]

\* How many times nm is in the list s.
Occurrences(s, nm) == Cardinality({i \in 1..Len(s) : s[i] = nm})

\* C22: AllEnvironments returns the environment names of the document in
\* document order, then those of testing, staging, production (in that order)
\* that are not among them; each of the three is in the result once; for a
\* document whose only environment is testing the result is
\* [testing, staging, production].
C22_AllEnvironmentsDefaults ==
    last.op = "allEnvironments" =>
        /\ last.result = EnvironmentNames \o
              SelectSeq(DefaultEnvNames,
                        LAMBDA nm : \A i \in 1..Len(envs) : envs[i].name # nm)
        /\ \A k \in 1..Len(DefaultEnvNames) : Occurrences(last.result, DefaultEnvNames[k]) = 1
        /\ EnvironmentNames = <<"testing">> =>
              last.result = <<"testing", "staging", "production">>

\* AllEnvironments was called on a document whose only environment is
\* testing, right after an UpsertResource that updated a resource of testing
\* in place.
C22_Witness ==
    /\ last.op = "allEnvironments"
    /\ last.after.op = "upsert"
    /\ last.after.envName = "testing"
    /\ ~last.after.added
    /\ last.after.envsBefore # <<>>
    /\ Len(last.after.envsBefore[1].resources) = Len(envs[1].resources)
    /\ EnvironmentNames = <<"testing">>
    /\ last.result = <<"testing", "staging", "production">>

----------------------------------------------------------------------------
(* Claims about findResourceIndex *)

\* The locations a resource of an environment is compared with.
EffectiveLocations(r, env) ==
    IF r.locations.account = "" /\ r.locations.regions = 0 THEN env.locations ELSE r.locations

\* Kind prefix "<mappedProvider>/<type>@", cloud provider, account and name
\* of resource r of environment env are those of the identity e.
SameIdentity(r, env, e) ==
    /\ r.kind[1] = (IF e.CloudProvider = "aws" THEN "ec2" ELSE e.CloudProvider)
    /\ r.kind[2] = e.ResourceType
    /\ (IF r.kind[1] = "ec2" THEN "aws" ELSE r.kind[1]) = e.CloudProvider
    /\ EffectiveLocations(r, env).account = e.Account
    /\ r.name = e.Name

\* The resources of env that have the identity e.
Matching(env, e) == {i \in 1..Len(env.resources) : SameIdentity(env.resources[i], env, e)}

\* The latest call was an UpsertResource into an environment that was there
\* and had a resources key, so that findResourceIndex decided what it did.
UpsertSearched ==
    /\ last.op = "upsert"
    /\ last.rawBefore.present
    /\ findEnvIndex(last.envsBefore, last.envName) > 0
    /\ findEnvIndex(last.envsBefore, last.envName) <= Len(last.rawBefore.value)
    /\ last.rawBefore.value[findEnvIndex(last.envsBefore, last.envName)].resources.present

\* C23: findResourceIndex returns the index of the first resource of the
\* environment that matches the identity (kind prefix, cloud provider, account
\* and name, a resource with empty locations taking the default locations of
\* its environment), else -1: UpsertResource replaces the resource at that
\* index, or appends when there is none.
C23_FirstMatchWithInheritedLocations ==
    UpsertSearched =>
        LET envIx == findEnvIndex(last.envsBefore, last.envName)
            before == last.envsBefore[envIx]
            after == envs[envIx]
            hits == Matching(before, last.resource)
        IN  IF hits = {}
            THEN /\ last.added
                 /\ Len(after.resources) = Len(before.resources) + 1
                 /\ after.resources[Len(after.resources)] = ToDeliveryResource(last.content)
            ELSE LET first == CHOOSE i \in hits : \A j \in hits : i <= j
                 IN  /\ ~last.added
                     /\ Len(after.resources) = Len(before.resources)
                     /\ after.resources[first] = ToDeliveryResource(last.content)
                     /\ \A i \in 1..Len(before.resources) :
                           i # first => after.resources[i].name = before.resources[i].name
                                        /\ after.resources[i].kind = before.resources[i].kind

\* The only resource of the environment had empty locations, matched through
\* the default locations of the environment and was replaced.
C23_Witness ==
    /\ UpsertSearched
    /\ LET envIx == findEnvIndex(last.envsBefore, last.envName)
           before == last.envsBefore[envIx]
       IN  /\ Matching(before, last.resource) = {1}
           /\ before.resources[1].locations.account = ""
           /\ before.locations.account = "test"
           /\ ~last.added
           /\ envs[envIx].resources[1] = ToDeliveryResource(last.content)
           /\ before.resources[1] # ToDeliveryResource(last.content)

----------------------------------------------------------------------------
(* Claims about the environment lists *)

\* The latest call was an UpsertResource into an environment that was there.
UpsertIntoExisting ==
    /\ last.op = "upsert"
    /\ last.rawBefore.present
    /\ findEnvIndex(last.envsBefore, last.envName) > 0
    /\ findEnvIndex(last.envsBefore, last.envName) <= Len(last.rawBefore.value)

\* C24: UpsertResource into an existing environment fills constraints and
\* notifications from their providers only when the key is absent and keeps
\* an existing value; it always replaces verifyWith and postDeploy by the
\* values of their providers.
C24_BackfillAndOverwrite ==
    UpsertIntoExisting =>
        LET envIx == findEnvIndex(last.envsBefore, last.envName)
            before == last.rawBefore.value[envIx]
            after == rawEnvs.value[envIx]
        IN  /\ after.constraints =
                  IF before.constraints.present THEN before.constraints
                  ELSE Some(constraintsProvider(last.envName))
            /\ after.notifications =
                  IF before.notifications.present THEN before.notifications
                  ELSE Some(notificationsProvider(last.envName))
            /\ after.verifyWith = Some(verifyWithProvider(last.envName))
            /\ after.postDeploy = Some(postDeployProvider(last.envName))

\* The environment had its own constraints and postDeploy and no
\* notifications: constraints were kept, notifications filled, postDeploy
\* replaced.
C24_Witness ==
    /\ UpsertIntoExisting
    /\ providers = CustomProviders
    /\ LET envIx == findEnvIndex(last.envsBefore, last.envName)
           before == last.rawBefore.value[envIx]
           after == rawEnvs.value[envIx]
       IN  /\ before.constraints = UserValue
           /\ before.postDeploy = UserValue
           /\ ~before.notifications.present
           /\ after.constraints = UserValue
           /\ after.notifications = Some(notificationsProvider(last.envName))
           /\ after.postDeploy # UserValue

----------------------------------------------------------------------------
(* The diff command *)

\* The exit code decided by the first diff alone.
ExitCodeOfFirst(diffs) == IF diffs # <<>> /\ diffs[1].Status # "NO_DIFF" THEN 1 ELSE 0

\* The exit code of the loop over diffs: 1 as soon as one status is not NO_DIFF.
ExitCode(diffs) ==
    IF \E i \in 1..Len(diffs) : diffs[i].Status # "NO_DIFF" THEN 1 ELSE 0

\* mdcli.Diff on the config file found on disk: os.Stat, a new processor,
\* mdProcessor.Diff (which loads), and the exit code.
DiffCommand(file, outcome) ==
    LET statErr == file.state = "missing"
        loadErr == ~statErr /\ file.state = "unreadable"
    IN  /\ ~loaded
        /\ pContent = NoBytes
        /\ api = NoCall
        /\ LoadIf(~statErr, file)
        /\ LET r == IF statErr \/ loadErr THEN NoRequest
                    ELSE commonRequest("POST", "/managed/delivery-configs/diff", pContent', outcome)
               parsed == r.returned /\ r.content.form = "diffs"
               diffs == IF parsed THEN SortedDiffs(r.content.diffs) ELSE <<>>
           IN  api' = [op |-> "DiffCommand", force |-> FALSE, load |-> ~statErr,
                       loadErr |-> loadErr, outcome |-> outcome, request |-> r,
                       err |-> ~parsed,
                       detail |-> NoDetail, hasDetail |-> FALSE,
                       diffs |-> diffs,
                       raw |-> RawDocument(rawKeys', rawName', rawApplication',
                                           rawArtifacts', rawEnvs'),
                       file |-> file,
                       exit |-> IF parsed THEN ExitCode(diffs) ELSE 0]
        /\ UNCHANGED baseURL

DiffStatuses == {"NO_DIFF", "DIFF", "MISSING"}

StatusDiff(id, status) == [ResourceID |-> id, Status |-> status]

\* The batches the diff api answers the command with: up to three diffs in
\* up to two batches.
CommandBatches ==
    LET a == "ec2:cluster:test:app"
        b == "ec2:cluster:prod:app"
        c == "titus:cluster:test:app"
    IN  {<<>>, << <<>> >>}
        \cup {<< <<StatusDiff(a, s)>> >> : s \in DiffStatuses}
        \cup {<< <<StatusDiff(a, t[1]), StatusDiff(b, t[2])>> >> : t \in DiffStatuses \X DiffStatuses}
        \cup {<< <<StatusDiff(a, t[1]), StatusDiff(b, t[2])>>, <<StatusDiff(c, t[3])>> >> :
                 t \in DiffStatuses \X DiffStatuses \X DiffStatuses}

CommandOutcomes ==
    {TransportError, UnreadableBody(200), Response(200, TextBody), Response(404, TextBody),
     Response(500, TextBody)}
    \cup {Response(st, DiffBody(b)) : st \in {200, 201}, b \in CommandBatches}

NextDiffCommand ==
    \E file \in ApiFiles, outcome \in CommandOutcomes : DiffCommand(file, outcome)

SpecDiffCommand == InitApi /\ [][NextDiffCommand]_vars

\* The diffs of the response the command was given.
ReturnedDiffs == Flatten(api.outcome.body.diffs)

\* The api answered the command with a list of diffs.
DiffsReturned ==
    /\ api.op = "DiffCommand"
    /\ api.file.state = "file"
    /\ baseURL # ""
    /\ api.outcome.kind = "response"
    /\ IsSuccess(api.outcome.status)
    /\ api.outcome.body.form = "diffs"

----------------------------------------------------------------------------
(* UpsertResource and InsertArtifact on one document *)

\* The files of SpecMutations: no environments key, one environment or two,
\* with no artifacts key, no artifact or one.
MutationFiles ==
    LET env(nm) == CHOOSE e \in NamedEnvs : e.name = nm
        x == CHOOSE a \in Artifacts :
                a.name = <<"x">> /\ a.reference = <<>> /\ a.tagVersionStrategy = ""
    IN  { FileWith(es, as) :
            es \in {Absent, Some(<<env("testing")>>), Some(<<env("staging"), env("testing")>>)},
            as \in {Absent, Some(<<>>), Some(<<x>>)} }

\* The artifacts inserted in SpecMutations: two that are Equal to the one of
\* the file (one of them under another name) and two that are not.
MutationArtifacts ==
    { a \in Artifacts : a.reference = <<>> /\ a.vmOptions.baseOs = "" }

NextMutations ==
    \/ \E file \in MutationFiles : ~loaded /\ last = NoCall /\ Load(file)
    \/ \E resource \in Identities, envName \in {"testing", "production"} :
            UpsertResource(resource, envName, CHOOSE c \in Contents : c.payload = 2)
    \/ \E artifact \in MutationArtifacts, t \in 1..MaxClock : InsertArtifact(artifact, t)

SpecMutations == InitProcessor /\ [][NextMutations]_vars

\* s is the beginning of t.
IsPrefix(s, t) == Len(s) <= Len(t) /\ \A i \in 1..Len(s) : s[i] = t[i]

\* No two elements of s are the same.
Distinct(s) == \A i, j \in 1..Len(s) : i # j => s[i] # s[j]

\* The names of the environments of the raw tree, in order.
RawEnvironmentNames(raw) ==
    IF raw.present THEN [i \in 1..Len(raw.value) |-> raw.value[i].name] ELSE <<>>

\* C26: no UpsertResource or InsertArtifact call removes or reorders an
\* environment (the names before the call are the beginning of the names
\* after it, in the typed model and in the raw tree), and the names stay
\* unique: no call makes a second environment of a name that is there.
C26_EnvironmentsAppendedOrMatched ==
    [][ /\ IsPrefix([i \in 1..Len(envs) |-> envs[i].name],
                    [i \in 1..Len(envs') |-> envs'[i].name])
        /\ IsPrefix(RawEnvironmentNames(rawEnvs), RawEnvironmentNames(rawEnvs'))
        /\ Distinct([i \in 1..Len(envs) |-> envs[i].name])
              => Distinct([i \in 1..Len(envs') |-> envs'[i].name])
        /\ Distinct(RawEnvironmentNames(rawEnvs))
              => Distinct(RawEnvironmentNames(rawEnvs')) ]_vars

\* A document of two environments got a third by UpsertResource, and an
\* artifact was inserted after that.
C26_Witness ==
    /\ last.op = "insert"
    /\ last.added
    /\ calls = 2
    /\ EnvironmentNames = <<"staging", "testing", "production">>

----------------------------------------------------------------------------
(* Claims about the two views *)

\* The number of elements of the value of a key of the raw tree (0 when the
\* key is not there).
RawLen(v) == IF v.present THEN Len(v.value) ELSE 0

\* The typed model es, as and the raw tree rawEs, rawAs hold the same
\* environments in the same order, with as many resources each, and as many
\* artifacts.
Synchronized(es, as, rawEs, rawAs) ==
    /\ Len(es) = RawLen(rawEs)
    /\ \A i \in 1..Len(es) :
          /\ es[i].name = rawEs.value[i].name
          /\ Len(es[i].resources) = RawLen(rawEs.value[i].resources)
    /\ Len(as) = RawLen(rawAs)

\* Every index Save takes from the raw tree is one of the typed model.
IndexesInRange(rawEs, es) ==
    \A i \in 1..RawLen(rawEs) :
        \A j \in 1..RawLen(rawEs.value[i].resources) :
            i <= Len(es) /\ j <= Len(es[i].resources)

\* C27: after any sequence of Load, UpsertResource and InsertArtifact calls the
\* typed model and the raw tree hold the same environments in the same
\* order, the same number of resources in each and the same number of
\* artifacts, so that Save finds a typed resource for every raw resource.
C27_ViewsSynchronized ==
    (loaded /\ last.op \in {"load", "upsert", "insert"}) =>
        /\ Synchronized(envs, artifacts, rawEnvs, rawArtifacts)
        /\ IndexesInRange(rawEnvs, envs)

----------------------------------------------------------------------------
(* The order of Diff *)

\* Resource ids of two, three and four segments.
OrderIDs ==
    {"ec2:b", "ec2:a:z", "ec2:c:a", "ec2:cluster:test:app", "titus:cluster:test:app"}

\* The answers of the diff api in SpecOrder: two or three diffs with
\* different ids in one batch, in every order.
OrderBatches ==
    {<< <<ManagedResourceDiff(t[1]), ManagedResourceDiff(t[2])>> >> :
        t \in {u \in OrderIDs \X OrderIDs : u[1] # u[2]}}
    \cup {<< <<ManagedResourceDiff(t[1]), ManagedResourceDiff(t[2]), ManagedResourceDiff(t[3])>> >> :
        t \in {u \in OrderIDs \X OrderIDs \X OrderIDs :
                  u[1] # u[2] /\ u[1] # u[3] /\ u[2] # u[3]}}

NextOrder ==
    \E file \in {MissingFile} \cup {f \in ApiFiles : f.state = "file"}, b \in OrderBatches :
        api = NoCall /\ Diff(file, Response(200, DiffBody(b)))

SpecOrder == InitApi /\ [][NextOrder]_vars

\* The ids of the diffs the api returned.
ReturnedIDs ==
    {api.outcome.body.diffs[1][i].ResourceID : i \in 1..Len(api.outcome.body.diffs[1])}

\* The diffs of s in the order given by the bijection f.
Permuted(s, f) == [i \in 1..Len(s) |-> s[f[i]]]

Bijections(n) == {f \in [1..n -> 1..n] : \A i, j \in 1..n : f[i] = f[j] => i = j}

\* C28 as stated: the order Diff sorts by is a strict weak order on resource
\* ids of any number of segments (irreflexive, asymmetric, transitive), and
\* the order of the returned diffs is that of every other order of the same
\* diffs in the response.
C28_StrictWeakOrder ==
    (api.op = "Diff" /\ ~api.err) =>
        /\ \A a \in ReturnedIDs : ~DiffLess(a, a)
        /\ \A a, b \in ReturnedIDs : DiffLess(a, b) => ~DiffLess(b, a)
        /\ \A a, b, c \in ReturnedIDs : (DiffLess(a, b) /\ DiffLess(b, c)) => DiffLess(a, c)
        /\ \A f \in Bijections(Len(api.outcome.body.diffs[1])) :
              SortedDiffs(<<Permuted(api.outcome.body.diffs[1], f)>>) = api.diffs

----------------------------------------------------------------------------
(* Claims about the artifact list *)

\* No two artifacts of the list are Equal.
NoTwoEqual(list) == \A i, j \in 1..Len(list) : i # j => ~Equal(list[i], list[j])

\* No two artifacts of the list have the same RefName().
NoTwoSameRefName(list) ==
    \A i, j \in 1..Len(list) : i # j => RefName(list[i]) # RefName(list[j])

\* C29: InsertArtifact calls on a list without two Equal artifacts and without
\* two artifacts of the same RefName() leave it so, and the list grows by one
\* for a call that returns added = true and not at all for one that returns
\* added = false.
C29_ArtifactListStaysUnique ==
    /\ NoTwoEqual(artifacts)
    /\ NoTwoSameRefName(artifacts)
    /\ last.op = "insert" =>
          Len(artifacts) = Len(last.artifactsBefore) + (IF last.added THEN 1 ELSE 0)

----------------------------------------------------------------------------
(* UpsertResource with errors *)

\* Content bytes that are not YAML.
NotYaml ==
    [kind |-> <<"", "", "">>, locations |-> EmptyLocations, name |-> "", payload |-> 0]

\* The processor of SpecUpsertErrors: custom providers, of which one may
\* return a value that cannot be converted.
InitUpsertErrors ==
    /\ loaded = FALSE
    /\ providers \in {CustomProviders, UnconvertibleNotifications, UnconvertibleVerifyWith}
    /\ envs = <<>>
    /\ rawEnvs = Absent
    /\ artifacts = <<>>
    /\ rawArtifacts = Absent
    /\ now = 1
    /\ last = NoCall
    /\ prev = NoCall
    /\ calls = 0
    /\ appName = ""
    /\ rawKeys = <<>>
    /\ rawName = Absent
    /\ rawApplication = Absent
    /\ pContent = NoBytes
    /\ written = NoBytes
    /\ baseURL = ""
    /\ api = NoCall
    /\ exported = NoContent
    /\ find = NoCall
    /\ node = NoNode
    /\ sortedNode = NoNode
    /\ firstNode = NoNode
    /\ firstSorted = NoNode

\* The files of SpecUpsertErrors: those of Files whose environment is testing
\* with default locations.
ErrorFiles ==
    {Absent, Some(<<>>)}
    \cup { Some(<<e>>) : e \in {f \in FileEnvs : f.name = "testing" /\ f.locations = TestLocations} }

NextUpsertErrors ==
    \/ \E es \in ErrorFiles : ~loaded /\ Load(FileWith(es, Absent))
    \/ \E resource \in Identities, envName \in EnvNames,
          content \in {NotYaml} \cup {c \in Contents : c.locations = TestLocations /\ c.payload = 1} :
            UpsertResource(resource, envName, content)

SpecUpsertErrors == InitUpsertErrors /\ [][NextUpsertErrors]_vars

\* C30: when UpsertResource returns an error the typed model and the raw
\* tree (the environments with their four lists and resources, and the
\* artifacts) are as they were before the call, and added is false.
C30_ErrorLeavesDocumentUnchanged ==
    (last.op = "upsert" /\ last.err # "") =>
        /\ ~last.added
        /\ envs = last.envsBefore
        /\ rawEnvs = last.rawBefore

====
